---------------------------- MODULE Spec2Model ----------------------------
(***************************************************************************)
(* Verification model of the bok-reader sync reconciler, EPUB loader and   *)
(* the parts of the Book component they talk to.                           *)
(*                                                                         *)
(* Numbers: a progress fraction p in [0,1] is the integer p * Scale.       *)
(* Strings that the code hashes are sequences of UTF-16 code units.        *)
(* 32-bit words are little-endian sequences of four bytes.                 *)
(***************************************************************************)
EXTENDS Integers, Sequences, FiniteSets, TLC

(***************************************************************************)
(* Bounds of the model.                                                    *)
(***************************************************************************)
\* Loads and operations share one budget: a load counts 2, an operation of the
\* host or of the user counts 1.
MaxWork == 5

(***************************************************************************)
(* Units and program constants.                                            *)
(***************************************************************************)
Scale == 10 * 1000 * 1000
PROGRESS_EPSILON == Scale \div 10000

\* An optional value (T | undefined, T | null) is << >> or <<value>>.
None == << >>
Some(value) == <<value>>
IsSome(optional) == optional # << >>
ValueOf(optional) == optional[1]

\* The non-finite numbers, coded outside the range of the finite ones.
Infinity == 200 * Scale
NegInfinity == 0 - Infinity
NaN == 201 * Scale
IsFinite(x) == x \notin {Infinity, NegInfinity, NaN}

Abs(x) == IF x < 0 THEN 0 - x ELSE x
Min(a, b) == IF a < b THEN a ELSE b
Max(a, b) == IF a > b THEN a ELSE b

\* Math.round on the quotient a / b of non-negative integers (half rounds up).
RoundDiv(a, b) == (2 * a + b) \div (2 * b)

(***************************************************************************)
(* syncUtils: clampProgress, serializeHighlight, areHighlightsEqual        *)
(***************************************************************************)
\* clampProgress gone wrong: no upper limit
clampProgressFromBelow(progress) == IF ~IsFinite(progress) THEN 0 ELSE Max(0, progress)

clampProgress(progress) ==
    IF ~IsFinite(progress) THEN 0 ELSE Max(0, Min(Scale, progress))

cloneHighlights(highlights) == [i \in 1..Len(highlights) |-> highlights[i]]

\* UTF-16 code units of the strings that occur in highlight records.
CodeUnits(s) ==
    CASE s = "" -> << >>
      [] s = "h1" -> <<104, 49>>
      [] s = "h2" -> <<104, 50>>
      [] s = "c1" -> <<99, 49>>
      [] s = "c2" -> <<99, 50>>
      [] s = "yellow" -> <<121, 101, 108, 108, 111, 119>>
      [] s = "red" -> <<114, 101, 100>>
      [] s = "blue" -> <<98, 108, 117, 101>>
      [] s = "purple" -> <<112, 117, 114, 112, 108, 101>>
      [] s = "first" -> <<102, 105, 114, 115, 116>>
      [] s = "second" -> <<115, 101, 99, 111, 110, 100>>

RECURSIVE Decimal(_)
Decimal(n) == IF n < 10 THEN <<48 + n>> ELSE Decimal(n \div 10) \o <<48 + (n % 10)>>

Colon == <<58>>

serializeHighlight(highlight) ==
    CodeUnits(highlight.id) \o Colon \o CodeUnits(highlight.chapterId) \o Colon
        \o Decimal(highlight.start) \o Colon \o Decimal(highlight.end) \o Colon
        \o CodeUnits(highlight.color) \o Colon
        \o CodeUnits(IF IsSome(highlight.text) THEN ValueOf(highlight.text) ELSE "")

\* Number of entries of the list whose serialisation is key.
CountOf(highlights, key) ==
    Cardinality({i \in 1..Len(highlights) : serializeHighlight(highlights[i]) = key})

buildHighlightCountMap(highlights) ==
    [key \in {serializeHighlight(highlights[i]) : i \in 1..Len(highlights)} |->
        CountOf(highlights, key)]

\* areHighlightsEqual gone wrong: the lists are compared place by place
areHighlightsEqualInOrder(left, right) == left = right

areHighlightsEqual(left, right) ==
    IF Len(left) # Len(right) THEN FALSE
    ELSE LET leftCounts == buildHighlightCountMap(left)
             rightCounts == buildHighlightCountMap(right)
         IN IF Cardinality(DOMAIN leftCounts) # Cardinality(DOMAIN rightCounts) THEN FALSE
            ELSE \A key \in DOMAIN leftCounts :
                    key \in DOMAIN rightCounts /\ rightCounts[key] = leftCounts[key]

(***************************************************************************)
(* 32-bit arithmetic on byte sequences, hashString32, the fingerprint      *)
(***************************************************************************)
Word(b0, b1, b2, b3) == <<b0, b1, b2, b3>>

\* bit k of a ^ b, in its place
XorBit(a, b, k) == ((((a \div (2 ^ k)) % 2) + ((b \div (2 ^ k)) % 2)) % 2) * (2 ^ k)

XorByte(a, b) ==
    XorBit(a, b, 0) + XorBit(a, b, 1) + XorBit(a, b, 2) + XorBit(a, b, 3)
        + XorBit(a, b, 4) + XorBit(a, b, 5) + XorBit(a, b, 6) + XorBit(a, b, 7)

XorWord(x, y) ==
    <<XorByte(x[1], y[1]), XorByte(x[2], y[2]), XorByte(x[3], y[3]), XorByte(x[4], y[4])>>

\* (x + y) >>> 0
AddWord(x, y) ==
    LET s1 == x[1] + y[1]
        s2 == x[2] + y[2] + (s1 \div 256)
        s3 == x[3] + y[3] + (s2 \div 256)
        s4 == x[4] + y[4] + (s3 \div 256)
    IN <<s1 % 256, s2 % 256, s3 % 256, s4 % 256>>

\* Math.imul(x, y) as an unsigned word
ImulWord(x, y) ==
    LET p1 == x[1] * y[1]
        p2 == x[1] * y[2] + x[2] * y[1] + (p1 \div 256)
        p3 == x[1] * y[3] + x[2] * y[2] + x[3] * y[1] + (p2 \div 256)
        p4 == x[1] * y[4] + x[2] * y[3] + x[3] * y[2] + x[4] * y[1] + (p3 \div 256)
    IN <<p1 % 256, p2 % 256, p3 % 256, p4 % 256>>

ZeroWord == Word(0, 0, 0, 0)
\* 2166136261 = 0x811C9DC5, 16777619 = 0x01000193, 2654435761 = 0x9E3779B1
FnvOffset == Word(197, 157, 28, 129)
FnvPrime == Word(147, 1, 0, 1)
MixMultiplier == Word(177, 121, 55, 158)

\* TLC evaluates an operator's argument where it is first used, however deep that
\* is; this evaluates value before result is looked at.
Strictly(value, result) == IF value = value THEN result ELSE result

\* The hash after the first n code units of input.
RECURSIVE HashUpTo(_, _)
HashUpTo(input, n) ==
    IF n = 0 THEN FnvOffset
    ELSE LET hash == HashUpTo(input, n - 1)
         IN Strictly(hash,
                ImulWord(XorWord(hash, Word(input[n] % 256, input[n] \div 256, 0, 0)),
                         FnvPrime))

hashString32(input) == HashUpTo(input, Len(input))

\* sum, xor and mix after the first n highlights.
RECURSIVE SignatureUpTo(_, _)
SignatureUpTo(highlights, n) ==
    IF n = 0 THEN [sum |-> ZeroWord, xor |-> ZeroWord, mix |-> ZeroWord]
    ELSE LET hashed == hashString32(serializeHighlight(highlights[n]))
             acc == SignatureUpTo(highlights, n - 1)
         IN [sum |-> AddWord(acc.sum, hashed),
             xor |-> XorWord(acc.xor, hashed),
             mix |-> AddWord(acc.mix, ImulWord(hashed, MixMultiplier))]

getHighlightsSignature(highlights) ==
    IF ~IsSome(highlights) THEN None
    ELSE LET list == ValueOf(highlights)
             acc == SignatureUpTo(list, Len(list))
         IN <<Len(list), acc.sum, acc.xor, acc.mix>>

\* Number.prototype.toFixed(6) of a fraction: the nearest multiple of 10^-6.
ToFixed6(p) == ((p + (Scale \div 2000000)) \div (Scale \div 1000000))

\* The fingerprint string "bookId|revision|progress|signature|forceApply" as the
\* tuple of its parts; an absent part ("none") is << >>.
getSyncStateFingerprint(syncState) ==
    LET revision == syncState.revision
        progress == IF IsSome(syncState.progress)
                    THEN Some(ToFixed6(clampProgress(ValueOf(syncState.progress))))
                    ELSE None
        highlightsSignature == getHighlightsSignature(syncState.highlights)
        forceApply == IF syncState.forceApply = Some(TRUE) THEN "1" ELSE "0"
    IN <<syncState.bookId, revision, progress, highlightsSignature, forceApply>>

\* hasProgressConflict gone wrong: a local progress of 0 conflicts too
hasProgressConflictFromZero(localProgress, remoteProgress) ==
    IF ~IsSome(remoteProgress) THEN FALSE
    ELSE Abs(clampProgress(localProgress) - clampProgress(ValueOf(remoteProgress)))
             > PROGRESS_EPSILON

hasProgressConflict(localProgress, remoteProgress) ==
    IF ~IsSome(remoteProgress) THEN FALSE
    ELSE LET normalizedLocal == clampProgress(localProgress)
             normalizedRemote == clampProgress(ValueOf(remoteProgress))
         IN IF normalizedLocal <= PROGRESS_EPSILON THEN FALSE
            ELSE Abs(normalizedLocal - normalizedRemote) > PROGRESS_EPSILON

(***************************************************************************)
(* The books and the inputs of the host and of the user                    *)
(***************************************************************************)
Sources == {"A", "B"}
NoBook == ""
NoContent == ""
LoadingTitle == "Loading..."

\* getTitle, createBookId and the normalized document of an archive.
TitleOf(source) == IF source = "A" THEN "Title A" ELSE "Title B"
createBookId(opf) == IF opf = "A" THEN "bok_a" ELSE "bok_b"
\* The archive E is the book B with a spine that yields no chapter.
ContentOf(source) ==
    IF source = "A" THEN "content A" ELSE IF source = "E" THEN NoContent ELSE "content B"

\* Both archives hold an image under the same path, and a stylesheet of their own.
ImagePaths == {"OEBPS/cover.png"}
CssOf(source) == IF source = "A" THEN "css A" ELSE "css B"
\* URL.createObjectURL of the file of an archive
BlobOf(source, path) == <<"blob", source, path>>
BookIds == {createBookId(source) : source \in Sources}

H1 == [id |-> "h1", chapterId |-> "c1", start |-> 0, end |-> 10,
       color |-> "yellow", text |-> Some("first")]
H2 == [id |-> "h2", chapterId |-> "c1", start |-> 12, end |-> 20,
       color |-> "blue", text |-> Some("second")]
HighlightPool == {H1}
RecolorChoices == {"red"}

Fraction(numerator, denominator) == (numerator * Scale) \div denominator

\* Positions the user scrolls to, and page counts a layout measurement yields.
UserProgress == {Fraction(9, 10)}
PageCounts == {10}

\* Sync states the host passes in.
SyncStateOf(bookId, progress, highlights, forceApply) ==
    [bookId |-> bookId, progress |-> progress, highlights |-> highlights,
     revision |-> None, forceApply |-> forceApply]

SyncStateInputs ==
    { SyncStateOf("bok_b", Some(0), None, None),
      SyncStateOf("bok_b", Some(Fraction(9, 10)), None, None),
      SyncStateOf("bok_b", Some(Fraction(1, 4)), Some(<<H2>>), None),
      SyncStateOf("bok_b", Some(0), None, Some(TRUE)),
      SyncStateOf("bok_a", Some(0), None, None),
      SyncStateOf("bok_b", None, Some(<<[H1 EXCEPT !.text = None]>>), None),
      SyncStateOf("bok_b", None, Some(<<[H1 EXCEPT !.text = Some("")]>>), None) }

\* Values found in localStorage when the page is opened.
ProgressKey(id) == <<"bok_progress_", id>>
HighlightsKey(id) == <<"bok_highlights_", id>>
StorageKeys ==
    {ProgressKey(id) : id \in BookIds \cup {TitleOf(source) : source \in Sources}}
        \cup {HighlightsKey(id) : id \in BookIds \cup {TitleOf(source) : source \in Sources}}
EmptyStorage == [key \in StorageKeys |-> None]

\* The address of the page the reader is on.
ReaderLocation == "/reader"
InitialStorages ==
    { [EmptyStorage EXCEPT ![ProgressKey("bok_b")] = Some(Fraction(9, 10))] }

(***************************************************************************)
(* State                                                                   *)
(***************************************************************************)
VARIABLES
    \* useEpub
    title, bookId, rawContent, toc, isLoading, error, currentZip, loads,
    currentStyle, currentImages, styleLinkElement, documentHead, contentImages,
    \* BokReader
    syncState, highlights, highlightsRef, progressRef, suppressSyncEmissionRef,
    lastProgressSyncEventRef, hasObservedProgressRef, pendingSyncEventsRef,
    queuedSyncStateRef, processedSyncStatesRef, lastConflictFingerprintRef,
    \* Book
    percentRead, pageCount, skipProgressPersistRef, clearSkipTimer, layoutTimer,
    layoutFrame, staleLayoutFrame, scrollTarget,
    currentPage, scrollLeft, animationRef, animationFrames, bookRef,
    \* React: what the last committed render saw
    rendered,
    \* the environment
    localStorage, location, releaseTimers, uuid, clock,
    \* what the host has been told, and the budget of inputs
    onSyncEventCalls, onConflictDetectedCalls, hostOps, userOps, op

vars == <<title, bookId, rawContent, toc, isLoading, error, currentZip, loads,
          currentStyle, currentImages, styleLinkElement, documentHead, contentImages,
          syncState, highlights, highlightsRef, progressRef, suppressSyncEmissionRef,
          lastProgressSyncEventRef, hasObservedProgressRef, pendingSyncEventsRef,
          queuedSyncStateRef, processedSyncStatesRef, lastConflictFingerprintRef,
          percentRead, pageCount, skipProgressPersistRef, clearSkipTimer, layoutTimer,
          layoutFrame, staleLayoutFrame, scrollTarget,
          currentPage, scrollLeft, animationRef, animationFrames, bookRef, rendered,
          localStorage, location, releaseTimers, uuid, clock,
          onSyncEventCalls, onConflictDetectedCalls, hostOps, userOps, op>>

\* The whole state as one record, so that a handler is a function on it.
World ==
    [title |-> title, bookId |-> bookId, rawContent |-> rawContent, toc |-> toc,
     isLoading |-> isLoading, error |-> error, currentZip |-> currentZip, loads |-> loads,
     currentStyle |-> currentStyle, currentImages |-> currentImages,
     styleLinkElement |-> styleLinkElement, documentHead |-> documentHead,
     contentImages |-> contentImages,
     syncState |-> syncState, highlights |-> highlights, highlightsRef |-> highlightsRef,
     progressRef |-> progressRef, suppressSyncEmissionRef |-> suppressSyncEmissionRef,
     lastProgressSyncEventRef |-> lastProgressSyncEventRef,
     hasObservedProgressRef |-> hasObservedProgressRef,
     pendingSyncEventsRef |-> pendingSyncEventsRef,
     queuedSyncStateRef |-> queuedSyncStateRef,
     processedSyncStatesRef |-> processedSyncStatesRef,
     lastConflictFingerprintRef |-> lastConflictFingerprintRef,
     percentRead |-> percentRead, pageCount |-> pageCount,
     skipProgressPersistRef |-> skipProgressPersistRef, clearSkipTimer |-> clearSkipTimer,
     layoutTimer |-> layoutTimer, layoutFrame |-> layoutFrame,
     staleLayoutFrame |-> staleLayoutFrame, scrollTarget |-> scrollTarget,
     currentPage |-> currentPage, scrollLeft |-> scrollLeft,
     animationRef |-> animationRef, animationFrames |-> animationFrames,
     bookRef |-> bookRef,
     rendered |-> rendered, localStorage |-> localStorage, location |-> location,
     releaseTimers |-> releaseTimers, uuid |-> uuid, clock |-> clock,
     onSyncEventCalls |-> onSyncEventCalls,
     onConflictDetectedCalls |-> onConflictDetectedCalls,
     hostOps |-> hostOps, userOps |-> userOps, op |-> op]

Becomes(w) ==
    /\ title' = w.title /\ bookId' = w.bookId /\ rawContent' = w.rawContent
    /\ toc' = w.toc /\ isLoading' = w.isLoading /\ error' = w.error
    /\ currentZip' = w.currentZip /\ loads' = w.loads
    /\ currentStyle' = w.currentStyle /\ currentImages' = w.currentImages
    /\ styleLinkElement' = w.styleLinkElement /\ documentHead' = w.documentHead
    /\ contentImages' = w.contentImages
    /\ syncState' = w.syncState /\ highlights' = w.highlights
    /\ highlightsRef' = w.highlightsRef /\ progressRef' = w.progressRef
    /\ suppressSyncEmissionRef' = w.suppressSyncEmissionRef
    /\ lastProgressSyncEventRef' = w.lastProgressSyncEventRef
    /\ hasObservedProgressRef' = w.hasObservedProgressRef
    /\ pendingSyncEventsRef' = w.pendingSyncEventsRef
    /\ queuedSyncStateRef' = w.queuedSyncStateRef
    /\ processedSyncStatesRef' = w.processedSyncStatesRef
    /\ lastConflictFingerprintRef' = w.lastConflictFingerprintRef
    /\ percentRead' = w.percentRead /\ pageCount' = w.pageCount
    /\ skipProgressPersistRef' = w.skipProgressPersistRef
    /\ clearSkipTimer' = w.clearSkipTimer
    /\ layoutTimer' = w.layoutTimer /\ layoutFrame' = w.layoutFrame
    /\ staleLayoutFrame' = w.staleLayoutFrame /\ scrollTarget' = w.scrollTarget
    /\ currentPage' = w.currentPage /\ scrollLeft' = w.scrollLeft
    /\ animationRef' = w.animationRef /\ animationFrames' = w.animationFrames
    /\ bookRef' = w.bookRef
    /\ rendered' = w.rendered /\ localStorage' = w.localStorage
    /\ location' = w.location
    /\ releaseTimers' = w.releaseTimers /\ uuid' = w.uuid /\ clock' = w.clock
    /\ onSyncEventCalls' = w.onSyncEventCalls
    /\ onConflictDetectedCalls' = w.onConflictDetectedCalls
    /\ hostOps' = w.hostOps /\ userOps' = w.userOps /\ op' = w.op

\* What a render closes over: the props and state of that render.
Snapshot(w) ==
    [title |-> w.title, bookId |-> w.bookId, rawContent |-> w.rawContent,
     isLoading |-> w.isLoading, highlights |-> w.highlights,
     percentRead |-> w.percentRead, pageCount |-> w.pageCount,
     syncState |-> w.syncState]

\* bookComponentRef.current is set while the Book is rendered.
HandleMounted(c) == c.rawContent # NoContent

(***************************************************************************)
(* The outbox                                                              *)
(***************************************************************************)
RECURSIVE IndexOfMutation(_, _, _)
IndexOfMutation(pendingEvents, mutationId, i) ==
    IF i > Len(pendingEvents) THEN 0
    ELSE IF pendingEvents[i].mutationId = mutationId THEN i
    ELSE IndexOfMutation(pendingEvents, mutationId, i + 1)

\* Map.set keeps the place of a key that is already present.
enqueuePendingSyncEvent(pendingEvents, event) ==
    LET at == IndexOfMutation(pendingEvents, event.mutationId, 1)
    IN IF at = 0 THEN Append(pendingEvents, event)
       ELSE [pendingEvents EXCEPT ![at] = event]

RECURSIVE InsertSorted(_, _)
InsertSorted(sorted, event) ==
    IF sorted = << >> THEN <<event>>
    ELSE IF sorted[Len(sorted)].emittedAt - event.emittedAt <= 0 THEN Append(sorted, event)
    ELSE Append(InsertSorted(SubSeq(sorted, 1, Len(sorted) - 1), event), sorted[Len(sorted)])

RECURSIVE SortFrom(_, _, _)
SortFrom(events, i, sorted) ==
    IF i > Len(events) THEN sorted
    ELSE SortFrom(events, i + 1, InsertSorted(sorted, events[i]))

\* listPendingSyncEvents gone wrong: the values in insertion order, unsorted
listInInsertionOrder(pendingEvents) == pendingEvents

\* Array.from(values()).sort(by emittedAt): a stable sort of the insertion order.
listPendingSyncEvents(pendingEvents) == SortFrom(pendingEvents, 1, << >>)

acknowledgePendingSyncEvents(pendingEvents, mutationIds) ==
    SelectSeq(pendingEvents, LAMBDA event : event.mutationId \notin mutationIds)

MutationIdsOf(events) == {events[i].mutationId : i \in 1..Len(events)}

(***************************************************************************)
(* BokReader: emitting local mutations                                     *)
(***************************************************************************)
\* crypto.randomUUID(): a token no earlier call has returned.
createMutationId(prefix, fresh) == <<prefix, fresh>>

NoPayload == [progress |-> None, highlight |-> None, highlightId |-> None, color |-> None]

emitSyncEvent(w, event) ==
    [w EXCEPT !.pendingSyncEventsRef = enqueuePendingSyncEvent(@, event),
              !.onSyncEventCalls = Append(@, event)]

\* The event object built at an emitSyncEvent call site, then emitted.
EmitMutation(w, c, type, prefix, payload) ==
    emitSyncEvent([w EXCEPT !.uuid = @ + 1],
        [type |-> type, mutationId |-> createMutationId(prefix, w.uuid),
         bookId |-> c.bookId, emittedAt |-> w.clock, payload |-> payload])

getSyncSnapshot(w, c) ==
    IF c.bookId = NoBook THEN None
    ELSE Some([bookId |-> c.bookId, progress |-> clampProgress(w.progressRef),
               highlights |-> cloneHighlights(w.highlightsRef)])

handleAddHighlight(w, c, highlight) ==
    LET w1 == [w EXCEPT !.highlights = Append(@, highlight)]
    IN IF c.bookId = NoBook \/ w.suppressSyncEmissionRef > 0 THEN w1
       ELSE EmitMutation(w1, c, "highlight.add", "hl_add",
                [NoPayload EXCEPT !.highlight = Some(highlight)])

handleRemoveHighlight(w, c, id) ==
    LET w1 == [w EXCEPT !.highlights = SelectSeq(@, LAMBDA highlight : highlight.id # id)]
    IN IF c.bookId = NoBook \/ w.suppressSyncEmissionRef > 0 THEN w1
       ELSE EmitMutation(w1, c, "highlight.remove", "hl_remove",
                [NoPayload EXCEPT !.highlightId = Some(id)])

handleUpdateHighlightColor(w, c, id, color) ==
    LET w1 == [w EXCEPT !.highlights =
                  [i \in 1..Len(@) |-> IF @[i].id = id THEN [@[i] EXCEPT !.color = color]
                                       ELSE @[i]]]
    IN IF c.bookId = NoBook \/ w.suppressSyncEmissionRef > 0 THEN w1
       ELSE EmitMutation(w1, c, "highlight.updateColor", "hl_color",
                [NoPayload EXCEPT !.highlightId = Some(id), !.color = Some(color)])

\* handleProgressChange gone wrong: no comparison with lastProgressSyncEventRef
handleProgressChangeUncoalesced(w, c, progress) ==
    LET normalizedProgress == clampProgress(progress)
        w1 == [w EXCEPT !.progressRef = normalizedProgress]
    IN IF ~w.hasObservedProgressRef
       THEN [w1 EXCEPT !.hasObservedProgressRef = TRUE,
                       !.lastProgressSyncEventRef = Some(normalizedProgress)]
       ELSE IF c.isLoading \/ c.bookId = NoBook \/ w.suppressSyncEmissionRef > 0 THEN w1
       ELSE EmitMutation([w1 EXCEPT !.lastProgressSyncEventRef = Some(normalizedProgress)],
                c, "progress.set", "progress",
                [NoPayload EXCEPT !.progress = Some(normalizedProgress)])

handleProgressChange(w, c, progress) ==
    LET normalizedProgress == clampProgress(progress)
        w1 == [w EXCEPT !.progressRef = normalizedProgress]
    IN IF ~w.hasObservedProgressRef
       THEN [w1 EXCEPT !.hasObservedProgressRef = TRUE,
                       !.lastProgressSyncEventRef = Some(normalizedProgress)]
       ELSE IF c.isLoading \/ c.bookId = NoBook \/ w.suppressSyncEmissionRef > 0 THEN w1
       ELSE IF /\ IsSome(w.lastProgressSyncEventRef)
               /\ Abs(ValueOf(w.lastProgressSyncEventRef) - normalizedProgress)
                      <= PROGRESS_EPSILON
       THEN w1
       ELSE EmitMutation([w1 EXCEPT !.lastProgressSyncEventRef = Some(normalizedProgress)],
                c, "progress.set", "progress",
                [NoPayload EXCEPT !.progress = Some(normalizedProgress)])

(***************************************************************************)
(* Book: setProgress on the handle                                         *)
(***************************************************************************)
\* Math.round(pageCount * progress), clamped into [0, pageCount - 1]
TargetPage(count, progress) ==
    Max(0, Min(count - 1, RoundDiv(count * progress, Scale)))

\* targetPage * pageWidth * noOfPages, a page (or a pair of pages) being 10 wide
PageOffset(targetPage) == targetPage * 10

\* scrollContainer.scrollLeft = value: the browser keeps the offset at 0 or above
ScrollTo(w, value) == [w EXCEPT !.scrollLeft = Max(0, value)]

\* cancelAnimationFrame(handle): the callback requested under the handle never runs
cancelAnimationFrame(w, handle) ==
    [w EXCEPT !.animationFrames = {frame \in @ : frame.handle # handle}]

\* A handle no pending callback holds; a handle nothing holds any more is as
\* good as a new one.
FreeHandle(frames) ==
    CHOOSE handle \in 1..(Cardinality(frames) + 1) :
        \A frame \in frames : frame.handle # handle

\* animationRef.current = requestAnimationFrame(animateScroll), animateScroll
\* closing over start and target
requestAnimationFrame(w, start, target) ==
    [w EXCEPT !.animationRef = Some(FreeHandle(w.animationFrames)),
              !.animationFrames = @ \cup {[handle |-> FreeHandle(w.animationFrames),
                                            start |-> start, target |-> target]}]

\* performScrollAnimation gone wrong: the frame of the animation before is left
performScrollAnimationUncancelled(w, targetPage) ==
    requestAnimationFrame(
        [w EXCEPT !.scrollTarget = Some([page |-> targetPage, animated |-> TRUE])],
        w.scrollLeft, PageOffset(targetPage))

\* performScrollAnimation: the frame animationRef names is cancelled, and the
\* first frame of an animation from the current offset to the page is requested.
performScrollAnimation(w, targetPage) ==
    requestAnimationFrame(
        IF IsSome(w.animationRef)
        THEN cancelAnimationFrame([w EXCEPT !.scrollTarget =
                                       Some([page |-> targetPage, animated |-> TRUE])],
                                  ValueOf(w.animationRef))
        ELSE [w EXCEPT !.scrollTarget = Some([page |-> targetPage, animated |-> TRUE])],
        w.scrollLeft, PageOffset(targetPage))

\* animateScroll, the callback of a frame: before the 450 ms are over the offset
\* is eased (ease in tenths, above 10 when easeOutBack overshoots) and the next
\* frame is requested; after them the offset is the target and animationRef null.
animateScroll(w, frame, inTime, ease) ==
    IF inTime
    THEN requestAnimationFrame(
             ScrollTo([w EXCEPT !.animationFrames = @ \ {frame}],
                      frame.start + ((frame.target - frame.start) * ease) \div 10),
             frame.start, frame.target)
    ELSE ScrollTo([w EXCEPT !.animationFrames = @ \ {frame}, !.animationRef = None],
                  frame.target)

\* goToPage: the page is clamped with the pageCount of the render
goToPage(w, c, targetPage) ==
    performScrollAnimation(
        [w EXCEPT !.currentPage = IF Max(0, targetPage) >= c.pageCount
                                  THEN c.pageCount - 1 ELSE Max(0, targetPage)],
        IF Max(0, targetPage) >= c.pageCount THEN c.pageCount - 1 ELSE Max(0, targetPage))

\* changePage: the updater of setCurrentPage works on the page held at that time
changePage(w, c, amount) == goToPage(w, c, w.currentPage + amount)

setProgress(w, c, progress) ==
    LET clampedProgress == Max(0, Min(Scale, progress))
        w1 == [w EXCEPT !.percentRead = clampedProgress]
    IN IF c.pageCount <= 0 THEN w1
       ELSE performScrollAnimation(
                [w1 EXCEPT !.currentPage = TargetPage(c.pageCount, clampedProgress)],
                TargetPage(c.pageCount, clampedProgress))

\* getProgress on the Book handle: percentReadRef.current, which the effect of
\* a render sets to the percentRead of that render
getProgress(w) == w.rendered.percentRead

\* LayoutMeasured gone wrong: the page shown before is kept, whatever the progress
LayoutMeasuredKeepingPage(w, count) ==
    IF count > 0
    THEN ScrollTo([w EXCEPT !.pageCount = count,
                            !.currentPage = Max(0, Min(count - 1, @)),
                            !.scrollTarget =
                                Some([page |-> Max(0, Min(count - 1, w.currentPage)),
                                      animated |-> FALSE])],
                  PageOffset(Max(0, Min(count - 1, w.currentPage))))
    ELSE [w EXCEPT !.pageCount = count, !.currentPage = 1]

\* The animation frame of the layout effect: the page count measured, the page
\* of the progress percentReadRef holds, the offset snapped to it (a scroll to be
\* observed when the offset moves).
LayoutMeasured(w, count) ==
    IF count > 0
    THEN ScrollTo([w EXCEPT !.pageCount = count,
                            !.currentPage = TargetPage(count, getProgress(w)),
                            !.scrollTarget =
                                IF PageOffset(TargetPage(count, getProgress(w)))
                                       # w.scrollLeft
                                THEN Some([page |-> TargetPage(count, getProgress(w)),
                                           animated |-> FALSE])
                                ELSE @],
                  PageOffset(TargetPage(count, getProgress(w))))
    ELSE [w EXCEPT !.pageCount = count, !.currentPage = 1]

(***************************************************************************)
(* BokReader: applying a sync state                                        *)
(***************************************************************************)
\* withSyncEmissionSuppressed(work): the counter goes up, and a setTimeout(0)
\* that lowers it again is scheduled once work is done.
SuppressionEntered(w) == [w EXCEPT !.suppressSyncEmissionRef = @ + 1]
SuppressionReleaseScheduled(w) == [w EXCEPT !.releaseTimers = @ + 1]

QueuedCopy(nextSyncState) ==
    [nextSyncState EXCEPT !.highlights =
        IF IsSome(@) THEN Some(cloneHighlights(ValueOf(@))) ELSE None]

\* the work done under withSyncEmissionSuppressed
ApplyProgress(w, c, nextSyncState) ==
    IF ~IsSome(nextSyncState.progress) THEN w
    ELSE setProgress(
            [w EXCEPT !.progressRef = clampProgress(ValueOf(nextSyncState.progress)),
                      !.lastProgressSyncEventRef =
                          Some(clampProgress(ValueOf(nextSyncState.progress)))],
            c, clampProgress(ValueOf(nextSyncState.progress)))

ApplyHighlights(w, nextSyncState) ==
    IF ~IsSome(nextSyncState.highlights) THEN w
    ELSE [w EXCEPT !.highlightsRef = cloneHighlights(ValueOf(nextSyncState.highlights)),
                   !.highlights = cloneHighlights(ValueOf(nextSyncState.highlights))]

\* applySyncStateToReader gone wrong: the bookId of the state is not looked at
applySyncStateToAnyBook(w, c, nextSyncState) ==
    IF c.bookId = NoBook
    THEN [w |-> w, result |-> "rejected"]
    ELSE IF ~HandleMounted(c)
    THEN [w |-> [w EXCEPT !.queuedSyncStateRef = Some(QueuedCopy(nextSyncState))],
          result |-> "queued"]
    ELSE [w |-> SuppressionReleaseScheduled(
                    ApplyHighlights(ApplyProgress(SuppressionEntered(w), c, nextSyncState),
                                    nextSyncState)),
          result |-> "applied"]

applySyncStateToReader(w, c, nextSyncState) ==
    IF c.bookId = NoBook \/ nextSyncState.bookId # c.bookId
    THEN [w |-> w, result |-> "rejected"]
    ELSE IF ~HandleMounted(c)
    THEN [w |-> [w EXCEPT !.queuedSyncStateRef = Some(QueuedCopy(nextSyncState))],
          result |-> "queued"]
    ELSE [w |-> SuppressionReleaseScheduled(
                    ApplyHighlights(ApplyProgress(SuppressionEntered(w), c, nextSyncState),
                                    nextSyncState)),
          result |-> "applied"]

ConflictEntities(localSnapshot, nextSyncState) ==
    (IF hasProgressConflict(localSnapshot.progress, nextSyncState.progress)
     THEN <<"progress">> ELSE << >>)
    \o (IF /\ IsSome(nextSyncState.highlights)
           /\ Len(localSnapshot.highlights) > 0
           /\ Len(ValueOf(nextSyncState.highlights)) > 0
           /\ ~areHighlightsEqual(localSnapshot.highlights,
                                  ValueOf(nextSyncState.highlights))
        THEN <<"highlights">> ELSE << >>)

\* the conflict branch: the callback once per run of the same fingerprint
ReportConflict(w, fingerprint, conflictEntities, localSnapshot) ==
    [w EXCEPT !.onConflictDetectedCalls =
                  IF w.lastConflictFingerprintRef # Some(fingerprint)
                  THEN Append(@, [fingerprint |-> fingerprint,
                                  entities |-> conflictEntities,
                                  local |-> localSnapshot])
                  ELSE @,
              !.lastConflictFingerprintRef = Some(fingerprint)]

\* the apply branch: applyResult !== "rejected" marks the fingerprint processed
MarkProcessed(applied, fingerprint) ==
    IF applied.result = "rejected" THEN applied.w
    ELSE [applied.w EXCEPT !.processedSyncStatesRef = @ \cup {fingerprint},
                           !.lastConflictFingerprintRef = None]

\* Reconcile gone wrong: a conflicting state is applied like any other
ReconcileApplyingConflicts(w, c, nextSyncState, fingerprint, localSnapshot) ==
    MarkProcessed(applySyncStateToReader(w, c, nextSyncState), fingerprint)

\* Reconcile gone wrong: forceApply is not looked at
ReconcileIgnoringForceApply(w, c, nextSyncState, fingerprint, localSnapshot) ==
    IF Len(ConflictEntities(localSnapshot, nextSyncState)) > 0
    THEN ReportConflict(w, fingerprint, ConflictEntities(localSnapshot, nextSyncState),
                        localSnapshot)
    ELSE MarkProcessed(applySyncStateToReader(w, c, nextSyncState), fingerprint)

\* processExternalSyncState past its early returns
Reconcile(w, c, nextSyncState, fingerprint, localSnapshot) ==
    IF /\ Len(ConflictEntities(localSnapshot, nextSyncState)) > 0
       /\ nextSyncState.forceApply # Some(TRUE)
    THEN ReportConflict(w, fingerprint, ConflictEntities(localSnapshot, nextSyncState),
                        localSnapshot)
    ELSE MarkProcessed(applySyncStateToReader(w, c, nextSyncState), fingerprint)

\* processExternalSyncState gone wrong: processed fingerprints are not skipped
processExternalSyncStateAgain(w, c, nextSyncState) ==
    IF c.bookId = NoBook \/ nextSyncState.bookId # c.bookId \/ c.isLoading THEN w
    ELSE Reconcile(w, c, nextSyncState, getSyncStateFingerprint(nextSyncState),
                   ValueOf(getSyncSnapshot(w, c)))

processExternalSyncState(w, c, nextSyncState) ==
    IF c.bookId = NoBook \/ nextSyncState.bookId # c.bookId \/ c.isLoading THEN w
    ELSE IF getSyncStateFingerprint(nextSyncState) \in w.processedSyncStatesRef THEN w
    ELSE Reconcile(w, c, nextSyncState, getSyncStateFingerprint(nextSyncState),
                   ValueOf(getSyncSnapshot(w, c)))

(***************************************************************************)
(* Effects of the Book component                                           *)
(***************************************************************************)
progressStorageKey(c) == IF c.bookId # NoBook THEN Some(ProgressKey(c.bookId)) ELSE None
legacyProgressStorageKey(c) ==
    IF c.title # "" /\ c.title # LoadingTitle THEN Some(ProgressKey(c.title)) ELSE None
highlightsStorageKey(c) == IF c.bookId # NoBook THEN Some(HighlightsKey(c.bookId)) ELSE None
legacyHighlightsStorageKey(c) ==
    IF c.title # "" /\ c.title # LoadingTitle THEN Some(HighlightsKey(c.title)) ELSE None

GetItem(w, key) == IF IsSome(key) THEN w.localStorage[ValueOf(key)] ELSE None
SetItem(w, key, value) == [w EXCEPT !.localStorage[ValueOf(key)] = Some(value)]

\* A Book that leaves the tree: its timers are cleared by the effect cleanups, the
\* animation frame of its layout measurement is not.
BookUnmounted(w) ==
    [w EXCEPT !.percentRead = 0, !.pageCount = 0, !.skipProgressPersistRef = FALSE,
              !.clearSkipTimer = FALSE, !.layoutTimer = FALSE, !.layoutFrame = FALSE,
              !.staleLayoutFrame = @ \/ w.layoutFrame, !.scrollTarget = None,
              !.currentPage = 1, !.scrollLeft = 0, !.animationRef = None,
              !.animationFrames = {}]

RestoreProgressEffectLegacyFirst(w, c) ==
    IF ~IsSome(progressStorageKey(c)) THEN [w EXCEPT !.clearSkipTimer = FALSE]
    ELSE LET stored == GetItem(w, progressStorageKey(c))
             legacyStored == GetItem(w, legacyProgressStorageKey(c))
             restoredProgress ==
                 IF IsSome(legacyStored) THEN Max(0, Min(Scale, ValueOf(legacyStored)))
                 ELSE IF IsSome(stored) THEN Max(0, Min(Scale, ValueOf(stored)))
                 ELSE 0
             w1 == IF IsSome(legacyStored)
                   THEN SetItem(w, progressStorageKey(c), restoredProgress) ELSE w
         IN [w1 EXCEPT !.skipProgressPersistRef = TRUE, !.percentRead = restoredProgress,
                       !.clearSkipTimer = TRUE]

RestoreProgressEffect(w, c) ==
    IF ~IsSome(progressStorageKey(c)) THEN [w EXCEPT !.clearSkipTimer = FALSE]
    ELSE LET stored == GetItem(w, progressStorageKey(c))
             legacyStored == GetItem(w, legacyProgressStorageKey(c))
             migrate == ~IsSome(stored) /\ IsSome(legacyStored)
             restoredProgress ==
                 IF IsSome(stored) THEN Max(0, Min(Scale, ValueOf(stored)))
                 ELSE IF IsSome(legacyStored) THEN Max(0, Min(Scale, ValueOf(legacyStored)))
                 ELSE 0
             w1 == IF migrate THEN SetItem(w, progressStorageKey(c), restoredProgress) ELSE w
         IN [w1 EXCEPT !.skipProgressPersistRef = TRUE, !.percentRead = restoredProgress,
                       !.clearSkipTimer = TRUE]

PersistProgressEffect(w, c) ==
    IF ~IsSome(progressStorageKey(c)) \/ w.skipProgressPersistRef THEN w
    ELSE SetItem(w, progressStorageKey(c), c.percentRead)

\* The layout effect up to its timer: the previous timer and the scroll animation
\* are cancelled, the reader is marked loading, the 400 ms timer is started.
LayoutEffect(w, c) ==
    [w EXCEPT !.layoutTimer = TRUE, !.isLoading = TRUE,
              !.scrollTarget = IF IsSome(@) /\ ValueOf(@).animated THEN None ELSE @,
              !.animationFrames =
                  IF IsSome(w.animationRef)
                  THEN cancelAnimationFrame(w, ValueOf(w.animationRef)).animationFrames
                  ELSE @]

\* The effects of Book in the order of the source, each run when one of its
\* dependencies differs from the render before (r) or the Book has just mounted.
RestoreProgressStage(w, r, c, freshMount) ==
    IF freshMount \/ r.bookId # c.bookId \/ r.title # c.title
    THEN RestoreProgressEffect(w, c) ELSE w

PersistProgressStage(w, r, c, freshMount) ==
    IF freshMount \/ r.percentRead # c.percentRead \/ r.bookId # c.bookId
    THEN PersistProgressEffect(w, c) ELSE w

ProgressChangeStage(w, r, c, freshMount) ==
    IF \/ freshMount \/ r.percentRead # c.percentRead
       \/ r.bookId # c.bookId \/ r.isLoading # c.isLoading
    THEN handleProgressChange(w, c, c.percentRead) ELSE w

LayoutStage(w, r, c, freshMount) ==
    IF freshMount \/ r.rawContent # c.rawContent \/ r.title # c.title
    THEN LayoutEffect(w, c) ELSE w

BookEffects(w, r, c, freshMount) ==
    IF ~HandleMounted(c) THEN w
    ELSE LayoutStage(
            ProgressChangeStage(
                PersistProgressStage(
                    RestoreProgressStage(w, r, c, freshMount),
                    r, c, freshMount),
                r, c, freshMount),
            r, c, freshMount)

(***************************************************************************)
(* Effects of BokReader, in the order of the source                        *)
(***************************************************************************)
RestoreHighlightsEffect(w, c) ==
    IF ~IsSome(highlightsStorageKey(c)) THEN w
    ELSE LET stored == GetItem(w, highlightsStorageKey(c))
             legacyStored == GetItem(w, legacyHighlightsStorageKey(c))
         IN IF IsSome(stored)
            THEN [w EXCEPT !.highlightsRef = cloneHighlights(ValueOf(stored)),
                           !.highlights = cloneHighlights(ValueOf(stored))]
            ELSE IF IsSome(legacyStored)
            THEN [SetItem(w, highlightsStorageKey(c), cloneHighlights(ValueOf(legacyStored)))
                    EXCEPT !.highlightsRef = cloneHighlights(ValueOf(legacyStored)),
                           !.highlights = cloneHighlights(ValueOf(legacyStored))]
            ELSE [w EXCEPT !.highlightsRef = << >>, !.highlights = << >>]

SaveHighlightsEffect(w, c) ==
    IF ~IsSome(highlightsStorageKey(c)) THEN w
    ELSE SetItem(w, highlightsStorageKey(c), c.highlights)

SyncStateEffect(w, c) ==
    IF ~IsSome(c.syncState) THEN w
    ELSE processExternalSyncState(w, c, ValueOf(c.syncState))

ReplayEffectKeepsQueue(w, c) ==
    IF c.isLoading \/ ~HandleMounted(c) \/ ~IsSome(w.queuedSyncStateRef) THEN w
    ELSE applySyncStateToReader(w, c, ValueOf(w.queuedSyncStateRef)).w

ReplayEffect(w, c) ==
    IF c.isLoading \/ ~HandleMounted(c) \/ ~IsSome(w.queuedSyncStateRef) THEN w
    ELSE applySyncStateToReader([w EXCEPT !.queuedSyncStateRef = None], c,
                                ValueOf(w.queuedSyncStateRef)).w

ResetEffect(w) ==
    [w EXCEPT !.pendingSyncEventsRef = << >>, !.processedSyncStatesRef = {},
              !.lastConflictFingerprintRef = None, !.queuedSyncStateRef = None,
              !.lastProgressSyncEventRef = None, !.hasObservedProgressRef = FALSE,
              !.progressRef = 0]

HighlightsRefStage(w, r, c) ==
    IF r.highlights # c.highlights THEN [w EXCEPT !.highlightsRef = c.highlights] ELSE w

RestoreHighlightsStage(w, r, c) ==
    IF \/ r.bookId # c.bookId
       \/ legacyHighlightsStorageKey(r) # legacyHighlightsStorageKey(c)
    THEN RestoreHighlightsEffect(w, c) ELSE w

SaveHighlightsStage(w, r, c) ==
    IF r.highlights # c.highlights \/ r.bookId # c.bookId
    THEN SaveHighlightsEffect(w, c) ELSE w

SyncStateStage(w, r, c) ==
    IF r.bookId # c.bookId \/ r.isLoading # c.isLoading \/ r.syncState # c.syncState
    THEN SyncStateEffect(w, c) ELSE w

ReplayStage(w, r, c) ==
    IF r.bookId # c.bookId \/ r.isLoading # c.isLoading \/ r.rawContent # c.rawContent
    THEN ReplayEffect(w, c) ELSE w

ResetStage(w, r, c) ==
    IF r.bookId # c.bookId THEN ResetEffect(w) ELSE w

ReaderEffects(w, r, c) ==
    ResetStage(
        ReplayStage(
            SyncStateStage(
                SaveHighlightsStage(
                    RestoreHighlightsStage(HighlightsRefStage(w, r, c), r, c),
                    r, c),
                r, c),
            r, c),
        r, c)

(***************************************************************************)
(* React: one render with its effects, children first                      *)
(***************************************************************************)
\* The Book is rendered while there is content: it mounts afresh, or unmounts.
BookLifecycle(w) ==
    IF (w.rawContent = NoContent) # (w.rendered.rawContent = NoContent)
    THEN BookUnmounted(w) ELSE w

\* The effects of the render c that follows the render r.
Effects(w, r, c) ==
    ReaderEffects(
        BookEffects(w, r, c, c.rawContent # NoContent /\ r.rawContent = NoContent),
        r, c)

Render(w, r) == [Effects(w, r, Snapshot(w)) EXCEPT !.rendered = Snapshot(w)]

Pass(w) == Render(BookLifecycle(w), w.rendered)

RenderDue(w) == Snapshot(w) # w.rendered

\* State set by the effects of a render is rendered right after them.
Commit(w) == Pass(Pass(w))

(***************************************************************************)
(* The operations.  Each one is a handler followed by the render it causes.*)
(***************************************************************************)
\* A setTimeout(..., 0) runs before the next network, timer or frame callback:
\* while one is pending only the user can get in between.
Settled(w) == ~RenderDue(w) /\ ~w.clearSkipTimer /\ w.releaseTimers = 0

Work == Len(loads) + Len(loads) + hostOps + userOps

HostCanAct == Work < MaxWork /\ Settled(World)

UserCanAct == /\ Work < MaxWork
              /\ ~RenderDue(World)
              /\ ~clearSkipTimer
              /\ HandleMounted(rendered)
              /\ ~rendered.isLoading

Did(w, kind, detail, load) ==
    [w EXCEPT !.op = [kind |-> kind, detail |-> detail, load |-> load,
                      input |-> None]]

\* document.head.removeChild(styleLinkElement.current)
RemoveChild(head, element) == SelectSeq(head, LAMBDA child : child # element)

\* useEpub.loadEpub up to its first await
loadEpub(w, source) ==
    [w EXCEPT !.isLoading = TRUE, !.rawContent = NoContent, !.toc = "",
              !.title = LoadingTitle, !.bookId = NoBook, !.error = None,
              !.documentHead = IF IsSome(w.styleLinkElement)
                               THEN RemoveChild(@, ValueOf(w.styleLinkElement))
                               ELSE @,
              !.styleLinkElement = None,
              !.loads = Append(@, [source |-> source, stage |-> "fetch", opf |-> ""])]

\* resolveImageSrc for every image of the spine items: a path that is not in
\* currentImages yet gets a blob URL of the archive in currentZip, and the
\* element gets whatever currentImages holds for the path.
resolveImageSrc(w) ==
    [w EXCEPT !.currentImages =
                  [path \in ImagePaths |->
                      IF @[path] = None THEN Some(BlobOf(w.currentZip, path))
                      ELSE @[path]],
              !.contentImages =
                  [path \in ImagePaths |->
                      IF w.currentImages[path] = None
                      THEN Some(BlobOf(w.currentZip, path))
                      ELSE w.currentImages[path]]]

\* currentStyle += stripUnneededRules(rawCss) + "\n", for the archive in currentZip
HarvestCss(w) == [w EXCEPT !.currentStyle = Append(@, CssOf(w.currentZip))]

\* addStyling: a link element holding currentStyle is appended to the head
addStyling(w) ==
    IF w.currentStyle = << >> THEN w
    ELSE [w EXCEPT !.styleLinkElement = Some([css |-> w.currentStyle,
                                              element |-> Len(w.documentHead) + 1]),
                   !.documentHead = Append(@, [css |-> w.currentStyle,
                                               element |-> Len(w.documentHead) + 1])]

LoadEpub(source) ==
    /\ Work + 2 <= MaxWork
    /\ Settled(World)
    /\ Becomes(Commit(Did(loadEpub(World, source), "loadEpub", source, Len(loads) + 1)))

\* the catch block of loadEpub
LoadFails(i) ==
    /\ loads[i].stage = "fetch"
    /\ Settled(World)
    /\ Becomes(Commit(Did([World EXCEPT !.error = Some(loads[i].source),
                                        !.isLoading = FALSE,
                                        !.loads[i].stage = "failed"],
                          "loadFails", loads[i].source, i)))

\* JSZip.loadAsync has resolved and readContainer has run up to createBookId: the
\* archive is in currentZip, the title of its package document is published.
OpfRead(i) ==
    /\ loads[i].stage = "fetch"
    /\ Settled(World)
    /\ Becomes(Commit(Did([World EXCEPT !.currentZip = loads[i].source,
                                        !.title = TitleOf(loads[i].source),
                                        !.loads[i].opf = loads[i].source,
                                        !.loads[i].stage = "hash"],
                          "opfRead", loads[i].source, i)))

\* setBookId(await createBookId(parsedOpf))
BookIdSet(i) ==
    /\ loads[i].stage = "hash"
    /\ Settled(World)
    /\ Becomes(Commit(Did([World EXCEPT !.bookId = createBookId(loads[i].opf),
                                        !.loads[i].stage = "spine"],
                          "bookIdSet", loads[i].source, i)))

\* parseManifestAndSpine: the table of contents and the spine items are read from
\* the archive that currentZip holds by now.
ContentSet(i) ==
    /\ loads[i].stage = "spine"
    /\ Settled(World)
    /\ Becomes(Commit(Did([addStyling(HarvestCss(resolveImageSrc(World)))
                               EXCEPT !.toc = loads[i].opf,
                                      !.rawContent = ContentOf(currentZip),
                                      !.loads[i].stage = "done"],
                          "contentSet", loads[i].source, i)))

\* Book: the 400 ms timer of the layout effect
LayoutTimerFires ==
    /\ layoutTimer
    /\ Settled(World)
    /\ Becomes(Did([World EXCEPT !.layoutTimer = FALSE, !.layoutFrame = TRUE],
                   "layoutTimer", "", 0))

\* Book: the animation frame of the layout effect, for a Book that is mounted
LayoutFrame(count) ==
    /\ layoutFrame
    /\ Settled(World)
    /\ Becomes(Commit(Did(
          [LayoutMeasured(World, count) EXCEPT !.layoutFrame = FALSE,
                                               !.isLoading = FALSE],
          "layoutFrame", "", 0)))

\* The animation frame requested for a Book that has been unmounted since: its
\* element measures 0, its state setters do nothing, setIsLoading is the reader's.
StaleLayoutFrame ==
    /\ staleLayoutFrame
    /\ Settled(World)
    /\ Becomes(Commit(Did([World EXCEPT !.staleLayoutFrame = FALSE, !.isLoading = FALSE],
                          "staleLayoutFrame", "", 0)))

\* usePercentageRead: the fraction read off the scroll position of a page
ScrollFraction(page, count) == Fraction(page, count)

\* usePercentageRead: the scroll position has reached the page it was sent to
ScrollObserved ==
    /\ IsSome(scrollTarget)
    /\ Settled(World)
    /\ rendered.pageCount > 0
    /\ Becomes(Commit(Did(
          [(IF animationFrames = {} THEN World
            ELSE animateScroll(World, CHOOSE frame \in animationFrames : TRUE, FALSE, 10))
               EXCEPT !.scrollTarget = None,
                      !.percentRead =
                          ScrollFraction(ValueOf(scrollTarget).page, rendered.pageCount)],
          "scrollObserved",
          IF ValueOf(scrollTarget).animated THEN "setProgress" ELSE "layout", 0)))

\* the user turns pages or swipes to a position
UserScroll(position) ==
    /\ UserCanAct
    /\ rendered.pageCount > 0
    /\ position # rendered.percentRead
    /\ Becomes(Commit(Did([World EXCEPT !.percentRead = position, !.scrollTarget = None,
                                        !.userOps = @ + 1],
                          "userScroll", "", 0)))

\* setTimeout(..., 0) of the restore effect of Book
ClearSkipTimer ==
    /\ clearSkipTimer
    /\ ~RenderDue(World)
    /\ Becomes(Did([World EXCEPT !.clearSkipTimer = FALSE,
                                 !.skipProgressPersistRef = FALSE],
                   "clearSkip", "", 0))

\* setTimeout(..., 0) of withSyncEmissionSuppressed
ReleaseSuppression ==
    /\ releaseTimers > 0
    /\ Becomes(Did([World EXCEPT !.releaseTimers = @ - 1,
                                 !.suppressSyncEmissionRef = Max(0, @ - 1)],
                   "release", "", 0))

\* React renders what the effects of the last render have set
Rerender ==
    /\ RenderDue(World)
    /\ Becomes(Commit(Did(World, "rerender", "", 0)))

(***************************************************************************)
(* The host and the user                                                   *)
(***************************************************************************)
\* The host passes a new syncState prop; the render that follows runs the
\* syncState effect.
SetSyncState(nextSyncState) ==
    /\ HostCanAct
    /\ Becomes(Commit(Did([World EXCEPT !.syncState = Some(nextSyncState),
                                        !.rendered.syncState = None,
                                        !.hostOps = @ + 1],
                          "setSyncState", "", 0)))

\* handle.applySyncState(nextSyncState, options)
\* forceApply is set only when the options carry it
StateToApply(nextSyncState, forceApply) ==
    IF IsSome(forceApply) THEN [nextSyncState EXCEPT !.forceApply = forceApply]
    ELSE nextSyncState

applySyncState(w, c, nextSyncState, forceApply) ==
    applySyncStateToReader(w, c, StateToApply(nextSyncState, forceApply))

ApplySyncState(nextSyncState, forceApply) ==
    /\ HostCanAct
    /\ LET applied == applySyncState([World EXCEPT !.hostOps = @ + 1], rendered,
                                     nextSyncState, forceApply)
           called == [Did(applied.w, "applySyncState", applied.result, 0)
                         EXCEPT !.op.input =
                                    Some(StateToApply(nextSyncState, forceApply))]
       IN \/ Becomes(Commit(called))
          \/ Becomes(called)

\* handle.acknowledgeSyncEvents(mutationIds)
AcknowledgeSyncEvents(mutationIds) ==
    /\ Settled(World)
    /\ Becomes(Did([World EXCEPT !.pendingSyncEventsRef =
                        acknowledgePendingSyncEvents(@, mutationIds)],
                   "acknowledgeSyncEvents", "", 0))

IdsOf(list) == {list[i].id : i \in 1..Len(list)}

\* Book: the user highlights a selection
AddHighlight(highlight) ==
    /\ UserCanAct
    /\ highlight.id \notin IdsOf(rendered.highlights)
    /\ Becomes(Commit(Did(handleAddHighlight([World EXCEPT !.userOps = @ + 1],
                                             rendered, highlight),
                          "addHighlight", highlight.id, 0)))

RemoveHighlight(id) ==
    /\ UserCanAct
    /\ id \in IdsOf(rendered.highlights)
    /\ Becomes(Commit(Did(handleRemoveHighlight([World EXCEPT !.userOps = @ + 1],
                                                rendered, id),
                          "removeHighlight", id, 0)))

UpdateHighlightColor(id, color) ==
    /\ UserCanAct
    /\ id \in IdsOf(rendered.highlights)
    /\ Becomes(Commit(Did(handleUpdateHighlightColor([World EXCEPT !.userOps = @ + 1],
                                                     rendered, id, color),
                          "updateHighlightColor", id, 0)))

(***************************************************************************)
(* The reader as a state machine                                           *)
(***************************************************************************)
Init ==
    /\ title = "" /\ bookId = NoBook /\ rawContent = NoContent /\ toc = ""
    /\ isLoading = TRUE /\ error = None /\ currentZip = "" /\ loads = << >>
    /\ currentStyle = << >> /\ currentImages = [path \in ImagePaths |-> None]
    /\ styleLinkElement = None /\ documentHead = << >>
    /\ contentImages = [path \in ImagePaths |-> None]
    /\ syncState = None /\ highlights = << >> /\ highlightsRef = << >>
    /\ progressRef = 0 /\ suppressSyncEmissionRef = 0
    /\ lastProgressSyncEventRef = None /\ hasObservedProgressRef = FALSE
    /\ pendingSyncEventsRef = << >> /\ queuedSyncStateRef = None
    /\ processedSyncStatesRef = {} /\ lastConflictFingerprintRef = None
    /\ percentRead = 0 /\ pageCount = 0 /\ skipProgressPersistRef = FALSE
    /\ clearSkipTimer = FALSE /\ layoutTimer = FALSE /\ layoutFrame = FALSE
    /\ staleLayoutFrame = FALSE /\ scrollTarget = None
    /\ currentPage = 1 /\ scrollLeft = 0 /\ animationRef = None /\ animationFrames = {}
    /\ bookRef = << >>
    /\ rendered = [title |-> "", bookId |-> NoBook, rawContent |-> NoContent,
                   isLoading |-> TRUE, highlights |-> << >>, percentRead |-> 0,
                   pageCount |-> 0, syncState |-> None]
    /\ localStorage \in InitialStorages
    /\ location = ReaderLocation
    /\ releaseTimers = 0 /\ uuid = 0 /\ clock = 0
    /\ onSyncEventCalls = << >> /\ onConflictDetectedCalls = << >>
    /\ hostOps = 0 /\ userOps = 0
    /\ op = [kind |-> "mount", detail |-> "", load |-> 0, input |-> None]

Next ==
    \/ \E source \in Sources : LoadEpub(source)
    \/ \E i \in 1..Len(loads) : LoadFails(i)
    \/ \E i \in 1..Len(loads) : OpfRead(i)
    \/ \E i \in 1..Len(loads) : BookIdSet(i)
    \/ \E i \in 1..Len(loads) : ContentSet(i)
    \/ LayoutTimerFires
    \/ \E count \in PageCounts : LayoutFrame(count)
    \/ StaleLayoutFrame
    \/ ScrollObserved
    \/ ClearSkipTimer
    \/ ReleaseSuppression
    \/ Rerender
    \/ \E nextSyncState \in SyncStateInputs : SetSyncState(nextSyncState)
    \/ \E nextSyncState \in SyncStateInputs, forceApply \in {None, Some(TRUE)} :
           ApplySyncState(nextSyncState, forceApply)
    \/ \E mutationIds \in SUBSET MutationIdsOf(pendingSyncEventsRef) :
           mutationIds # {} /\ AcknowledgeSyncEvents(mutationIds)
    \/ \E position \in UserProgress : UserScroll(position)
    \/ \E highlight \in HighlightPool : AddHighlight(highlight)
    \/ \E id \in IdsOf(rendered.highlights) : RemoveHighlight(id)
    \/ \E id \in IdsOf(rendered.highlights), color \in RecolorChoices :
           UpdateHighlightColor(id, color)

Spec == Init /\ [][Next]_vars

(***************************************************************************)
(* The properties                                                          *)
(***************************************************************************)
\* the reader is ready: a book is identified, mounted and laid out
Ready(c) == c.bookId # NoBook /\ HandleMounted(c) /\ ~c.isLoading

LoadSteps == {"opfRead", "bookIdSet", "contentSet", "loadFails"}

HighlightSteps == {"addHighlight", "removeHighlight", "updateHighlightColor"}

\* C1: an event put in the outbox stays there until acknowledgeSyncEvents names
\* its mutationId: every step other than an acknowledgement keeps every
\* pending event, a step that loads or reloads a book included.
OutboxKeptUntilAcknowledged ==
    [][op'.kind # "acknowledgeSyncEvents" =>
           \A i \in 1..Len(pendingSyncEventsRef) :
               pendingSyncEventsRef[i].mutationId \in MutationIdsOf(pendingSyncEventsRef')]_vars

\* C2: the changes applySyncStateToReader makes are never reported: neither the
\* step that applies a sync state, nor the render after it, nor the progress
\* callback of the scroll it started adds an event to the outbox or calls
\* onSyncEvent.
AppliedStateNeverEmitted ==
    [][(\/ op'.kind \in {"setSyncState", "applySyncState", "rerender"}
        \/ op'.kind = "scrollObserved" /\ op'.detail = "setProgress") =>
           /\ onSyncEventCalls' = onSyncEventCalls
           /\ pendingSyncEventsRef' = pendingSyncEventsRef]_vars

\* C10: a load that settles after a newer one was requested is discarded: none
\* of its steps changes title, bookId, toc, content, error or isLoading.
StaleLoadDiscarded ==
    [][(op'.kind \in LoadSteps /\ op'.load < Len(loads')) =>
           UNCHANGED <<title, bookId, toc, rawContent, error, isLoading>>]_vars

\* The state conflicts with what the reader holds: processExternalSyncState's
\* conflict test on the snapshot of the last render.
ConflictsWithLocal(nextSyncState) ==
    /\ rendered.bookId # NoBook
    /\ nextSyncState.bookId = rendered.bookId
    /\ Len(ConflictEntities(ValueOf(getSyncSnapshot(World, rendered)), nextSyncState)) > 0

\* C3: once a fingerprint delivered through the syncState prop has been accepted
\* for the active book (the delivery applied or queued the state), it stays
\* accepted while that book is active, and every later delivery of it changes
\* neither the local progress nor the highlights and reports no conflict.
AcceptedFingerprintIsIdempotent ==
    [][/\ (rendered'.bookId = rendered.bookId) =>
               processedSyncStatesRef \subseteq processedSyncStatesRef'
       /\ (op'.kind = "setSyncState") =>
               /\ (\/ releaseTimers' > releaseTimers
                   \/ queuedSyncStateRef' # queuedSyncStateRef) =>
                      getSyncStateFingerprint(ValueOf(syncState'))
                          \in processedSyncStatesRef'
               /\ (getSyncStateFingerprint(ValueOf(syncState'))
                       \in processedSyncStatesRef) =>
                      UNCHANGED <<progressRef, percentRead, highlights, highlightsRef,
                                  onConflictDetectedCalls>>]_vars

\* C3 happens: an accepted fingerprint is delivered again after the local
\* progress has moved away from it, and the progress stays where it is.
AcceptedFingerprintRedelivered ==
    /\ op.kind = "setSyncState"
    /\ getSyncStateFingerprint(ValueOf(syncState)) \in processedSyncStatesRef
    /\ ValueOf(syncState).bookId = rendered.bookId
    /\ releaseTimers = 0
    /\ IsSome(ValueOf(syncState).progress)
    /\ progressRef # clampProgress(ValueOf(ValueOf(syncState).progress))

\* C4: onConflictDetected is called at most once for each fingerprint, whatever
\* other fingerprints are delivered in between.
ConflictReportedOncePerFingerprint ==
    \A i, j \in 1..Len(onConflictDetectedCalls) :
        i # j => onConflictDetectedCalls[i].fingerprint
                     # onConflictDetectedCalls[j].fingerprint

\* C5: a delivery through the syncState prop of a state that conflicts with the
\* local one and carries no forceApply leaves the local progress, the
\* highlights, the outbox and the processed fingerprints as they were.
ConflictingDeliveryChangesNothing ==
    [][(/\ op'.kind = "setSyncState"
        /\ ConflictsWithLocal(ValueOf(syncState'))
        /\ ValueOf(syncState').forceApply # Some(TRUE)) =>
           UNCHANGED <<progressRef, percentRead, highlights, highlightsRef,
                       pendingSyncEventsRef, processedSyncStatesRef>>]_vars

\* C5 happens: a conflicting delivery reached the ready reader and was reported.
ConflictingDeliveryReported ==
    /\ op.kind = "setSyncState"
    /\ Ready(rendered)
    /\ ConflictsWithLocal(ValueOf(syncState))
    /\ ValueOf(syncState).forceApply # Some(TRUE)
    /\ lastConflictFingerprintRef = Some(getSyncStateFingerprint(ValueOf(syncState)))
    /\ Len(onConflictDetectedCalls) > 0

\* C6: no entry point lets a conflicting state without forceApply overwrite
\* local data: a prop delivery, an imperative applySyncState call and the replay
\* of a queued state all leave the local progress and highlights alone when the
\* state conflicts with them.
ConflictingStateNeverOverwrites ==
    [][(\/ /\ op'.kind = "setSyncState"
           /\ ConflictsWithLocal(ValueOf(syncState'))
           /\ ValueOf(syncState').forceApply # Some(TRUE)
        \/ /\ op'.kind = "applySyncState"
           /\ ConflictsWithLocal(ValueOf(op'.input))
           /\ ValueOf(op'.input).forceApply # Some(TRUE)
        \/ /\ IsSome(queuedSyncStateRef)
           /\ queuedSyncStateRef' = None
           /\ rendered'.bookId = rendered.bookId
           /\ ConflictsWithLocal(ValueOf(queuedSyncStateRef))
           /\ ValueOf(queuedSyncStateRef).forceApply # Some(TRUE)) =>
           UNCHANGED <<progressRef, highlights>>]_vars

\* A state delivered with forceApply to the ready reader has been applied: the
\* local progress and highlights are the remote ones, and no conflict is reported.
ForcedStateApplied(nextSyncState) ==
    /\ IsSome(nextSyncState.progress) =>
           /\ progressRef' = clampProgress(ValueOf(nextSyncState.progress))
           /\ percentRead' = clampProgress(ValueOf(nextSyncState.progress))
    /\ IsSome(nextSyncState.highlights) =>
           highlights' = ValueOf(nextSyncState.highlights)
    /\ onConflictDetectedCalls' = onConflictDetectedCalls

ForcedDelivery ==
    /\ op'.kind = "setSyncState"
    /\ Ready(rendered)
    /\ ValueOf(syncState').bookId = rendered.bookId
    /\ ValueOf(syncState').forceApply = Some(TRUE)

\* C7 as stated: whatever the local state, a state delivered with forceApply
\* while the reader is ready is applied and reports no conflict.
ForceApplyAlwaysApplied ==
    [][ForcedDelivery => ForcedStateApplied(ValueOf(syncState'))]_vars

\* C7, amended: whatever the local state, a state delivered with forceApply
\* while the reader is ready, whose fingerprint has not been processed for the
\* active book, is applied and reports no conflict.
ForceApplyAppliedUnlessProcessed ==
    [][(/\ ForcedDelivery
        /\ getSyncStateFingerprint(ValueOf(syncState')) \notin processedSyncStatesRef) =>
           ForcedStateApplied(ValueOf(syncState'))]_vars

\* C7 happens: a forced state has replaced a conflicting local progress, and the
\* scroll to its page is under way.
ForcedStateReplacedLocal ==
    /\ op.kind = "setSyncState"
    /\ Ready(rendered)
    /\ ValueOf(syncState).forceApply = Some(TRUE)
    /\ ValueOf(syncState).bookId = rendered.bookId
    /\ releaseTimers > 0
    /\ progressRef = clampProgress(ValueOf(ValueOf(syncState).progress))
    /\ localStorage[ProgressKey(rendered.bookId)] = Some(progressRef)
    /\ IsSome(scrollTarget) /\ ValueOf(scrollTarget).animated
    /\ onConflictDetectedCalls = << >>

\* C8: while a book is loaded, every highlight the user adds, removes or
\* recolours puts exactly one event of the matching type in the outbox, under
\* a mutationId no earlier event had, and calls onSyncEvent exactly once.
HighlightChangeEmitsOnce ==
    [][(op'.kind \in HighlightSteps /\ rendered.bookId # NoBook) =>
           /\ Len(onSyncEventCalls') = Len(onSyncEventCalls) + 1
           /\ onSyncEventCalls'[Len(onSyncEventCalls')].type =
                  (CASE op'.kind = "addHighlight" -> "highlight.add"
                     [] op'.kind = "removeHighlight" -> "highlight.remove"
                     [] op'.kind = "updateHighlightColor" -> "highlight.updateColor")
           /\ onSyncEventCalls'[Len(onSyncEventCalls')].mutationId
                  \notin MutationIdsOf(onSyncEventCalls)
           /\ Len(pendingSyncEventsRef') = Len(pendingSyncEventsRef) + 1
           /\ onSyncEventCalls'[Len(onSyncEventCalls')].mutationId
                  \in MutationIdsOf(pendingSyncEventsRef')]_vars

\* C9: a state handed to applySyncState while the book is identified but its
\* handle is not mounted is queued, replacing whatever was queued before; the
\* step that makes the reader ready for that book applies the queued state and
\* empties the queue, so that it is applied once; a ready reader that has
\* rendered holds no queued state.
QueuedStateAppliedOnceReady ==
    [][/\ (/\ op'.kind = "applySyncState"
            /\ rendered.bookId # NoBook
            /\ ValueOf(op'.input).bookId = rendered.bookId
            /\ ~HandleMounted(rendered)) =>
               /\ op'.detail = "queued"
               /\ queuedSyncStateRef' = Some(QueuedCopy(ValueOf(op'.input)))
       /\ (/\ IsSome(queuedSyncStateRef)
            /\ ~Ready(rendered)
            /\ Ready(rendered')
            /\ rendered'.bookId = rendered.bookId) =>
               /\ queuedSyncStateRef' = None
               /\ releaseTimers' > releaseTimers
               /\ IsSome(ValueOf(queuedSyncStateRef).progress) =>
                      progressRef' = clampProgress(
                                         ValueOf(ValueOf(queuedSyncStateRef).progress))
               /\ IsSome(ValueOf(queuedSyncStateRef).highlights) =>
                      highlights' = ValueOf(ValueOf(queuedSyncStateRef).highlights)
       /\ (Ready(rendered') /\ ~RenderDue(World')) => queuedSyncStateRef' = None]_vars

\* C9 happens: the layout of the book has just finished, and the state queued
\* while the book was still loading has been applied in place of the stored one.
QueuedStateReplayed ==
    /\ op.kind = "layoutFrame"
    /\ Ready(rendered)
    /\ syncState = None
    /\ queuedSyncStateRef = None
    /\ releaseTimers > 0
    /\ hostOps > 0
    /\ highlights = <<H2>>
    /\ progressRef = Fraction(1, 4)

\* C11: when a book is loaded after another one, everything derived from the
\* earlier book is released: every image reference of the document on display
\* resolves to a blob URL of the archive the document was read from, the
\* injected stylesheet holds only CSS of that archive, and the head holds at
\* most one injected stylesheet.
PreviousBookReleased ==
    \A source \in Sources :
        rawContent = ContentOf(source) =>
            /\ \A path \in ImagePaths :
                   contentImages[path] = Some(BlobOf(source, path))
            /\ IsSome(styleLinkElement) =>
                   \A k \in 1..Len(ValueOf(styleLinkElement).css) :
                       ValueOf(styleLinkElement).css[k] = CssOf(source)
            /\ Len(documentHead) <= 1

(***************************************************************************)
(* The outbox on its own: events with any emission times, in any order     *)
(***************************************************************************)
OutboxMutationIds == {"m1", "m2", "m3"}
OutboxEmissionTimes == {10, 20, 30}
OutboxEvents ==
    [mutationId : OutboxMutationIds, emittedAt : OutboxEmissionTimes, type : {"x"}]

OutboxEnqueue(event) ==
    Becomes([Did(World, "enqueue", event.mutationId, 0)
                EXCEPT !.pendingSyncEventsRef = enqueuePendingSyncEvent(@, event)])

OutboxAcknowledge(mutationIds) ==
    Becomes([Did(World, "acknowledge", "", 0)
                EXCEPT !.pendingSyncEventsRef =
                           acknowledgePendingSyncEvents(@, mutationIds),
                       !.op.input = Some(mutationIds)])

OutboxNext ==
    \/ \E event \in OutboxEvents : OutboxEnqueue(event)
    \/ \E mutationIds \in SUBSET OutboxMutationIds : OutboxAcknowledge(mutationIds)

OutboxSpec == Init /\ [][OutboxNext]_vars

\* the place of the event with this mutationId
PlaceOf(events, mutationId) ==
    CHOOSE k \in 1..Len(events) : events[k].mutationId = mutationId

\* C12: whatever events are pending and in whatever order they were put in,
\* listPendingSyncEvents returns just these events with emittedAt ascending; and
\* acknowledgePendingSyncEvents with any set of mutation ids removes the
\* events with these ids and no other, and keeps the rest unchanged and in the
\* order they had.
OutboxListedInOrderAndAcknowledged ==
    [][/\ LET listed == listPendingSyncEvents(pendingSyncEventsRef')
          IN /\ Len(listed) = Len(pendingSyncEventsRef')
             /\ {listed[k] : k \in 1..Len(listed)}
                    = {pendingSyncEventsRef'[k] : k \in 1..Len(pendingSyncEventsRef')}
             /\ \A i, j \in 1..Len(listed) :
                    i < j => listed[i].emittedAt <= listed[j].emittedAt
       /\ (op'.kind = "acknowledge") =>
              /\ MutationIdsOf(pendingSyncEventsRef')
                     = MutationIdsOf(pendingSyncEventsRef) \ ValueOf(op'.input)
              /\ \A i, j \in 1..Len(pendingSyncEventsRef') :
                     /\ pendingSyncEventsRef'[i] =
                            pendingSyncEventsRef[PlaceOf(pendingSyncEventsRef,
                                pendingSyncEventsRef'[i].mutationId)]
                     /\ i < j =>
                            PlaceOf(pendingSyncEventsRef,
                                    pendingSyncEventsRef'[i].mutationId)
                                < PlaceOf(pendingSyncEventsRef,
                                          pendingSyncEventsRef'[j].mutationId)]_vars

\* C12 happens: one of three events has been acknowledged, and the two that are
\* left are pending with the later one first, so that listing reorders them.
OutboxAcknowledgedOutOfOrder ==
    /\ op.kind = "acknowledge"
    /\ op.input = Some({"m1"})
    /\ Len(pendingSyncEventsRef) = 2
    /\ pendingSyncEventsRef[1].emittedAt = 30
    /\ pendingSyncEventsRef[2].emittedAt = 20

(***************************************************************************)
(* syncUtils on its own: the functions applied to inputs of every kind     *)
(***************************************************************************)
ProgressInputs ==
    {NegInfinity, 0 - Scale, 0, PROGRESS_EPSILON, PROGRESS_EPSILON + 1, Fraction(4, 10),
     Fraction(7, 10), Fraction(73, 100), Scale, Scale + Scale, Infinity, NaN}

\* a highlight made without text, as Book makes it for an empty selection text
HighlightPoolOfInputs == {H1, H2, [H1 EXCEPT !.text = None]}
HighlightLists ==
    UNION {[1..n -> HighlightPoolOfInputs] : n \in 0..3}

FieldValues(field) ==
    CASE field = "id" -> {"h1", "h2"}
      [] field = "chapterId" -> {"c1", "c2"}
      [] field = "start" -> {0, 12}
      [] field = "end" -> {10, 20}
      [] field = "color" -> {"yellow", "red", "blue"}
      [] field = "text" -> {None, Some(""), Some("first"), Some("second")}

\* The local progress is in progressRef, the remote state in syncState and the
\* highlight list in highlights; a second list is put in highlightsRef.
SyncUtilsInit ==
    /\ title = "" /\ bookId = NoBook /\ rawContent = NoContent /\ toc = ""
    /\ isLoading = TRUE /\ error = None /\ currentZip = "" /\ loads = << >>
    /\ currentStyle = << >> /\ currentImages = [path \in ImagePaths |-> None]
    /\ styleLinkElement = None /\ documentHead = << >>
    /\ contentImages = [path \in ImagePaths |-> None]
    /\ syncState \in {Some(SyncStateOf("bok_b", remoteProgress, None, None)) :
                          remoteProgress \in {None} \cup {Some(progress) :
                                                             progress \in ProgressInputs}}
    /\ highlights \in HighlightLists /\ highlightsRef = << >>
    /\ progressRef \in ProgressInputs /\ suppressSyncEmissionRef = 0
    /\ highlights = << >> \/ (progressRef = 0 /\ ValueOf(syncState).progress = None)
    /\ lastProgressSyncEventRef = None /\ hasObservedProgressRef = FALSE
    /\ pendingSyncEventsRef = << >> /\ queuedSyncStateRef = None
    /\ processedSyncStatesRef = {} /\ lastConflictFingerprintRef = None
    /\ percentRead = 0 /\ pageCount = 0 /\ skipProgressPersistRef = FALSE
    /\ clearSkipTimer = FALSE /\ layoutTimer = FALSE /\ layoutFrame = FALSE
    /\ staleLayoutFrame = FALSE /\ scrollTarget = None
    /\ currentPage = 1 /\ scrollLeft = 0 /\ animationRef = None /\ animationFrames = {}
    /\ bookRef = << >>
    /\ rendered = [title |-> "", bookId |-> NoBook, rawContent |-> NoContent,
                   isLoading |-> TRUE, highlights |-> << >>, percentRead |-> 0,
                   pageCount |-> 0, syncState |-> None]
    /\ localStorage = EmptyStorage
    /\ location = ReaderLocation
    /\ releaseTimers = 0 /\ uuid = 0 /\ clock = 0
    /\ onSyncEventCalls = << >> /\ onConflictDetectedCalls = << >>
    /\ hostOps = 0 /\ userOps = 0
    /\ op = [kind |-> "mount", detail |-> "", load |-> 0, input |-> None]

\* a call of a function on the inputs: its name and its result are recorded in op
Called(w, name, result) == [Did(w, name, "", 0) EXCEPT !.op.input = Some(result)]

ClampProgressCalled ==
    /\ op.kind = "mount"
    /\ Becomes(Called(World, "clampProgress", clampProgress(progressRef)))

HasProgressConflictCalled ==
    /\ op.kind = "mount"
    /\ Becomes(Called(World, "hasProgressConflict",
                      hasProgressConflict(progressRef, ValueOf(syncState).progress)))

\* areHighlightsEqual and getSyncStateFingerprint for the list and a reordering of it
ReorderedCompared(order) ==
    LET reordered == [k \in 1..Len(highlights) |-> highlights[order[k]]]
    IN op.kind = "mount" /\ Becomes(Called([World EXCEPT !.highlightsRef = reordered], "reordered",
           [equal |-> areHighlightsEqual(highlights, reordered),
            fingerprint |-> getSyncStateFingerprint(
                [ValueOf(syncState) EXCEPT !.highlights = Some(highlights)]),
            reorderedFingerprint |-> getSyncStateFingerprint(
                [ValueOf(syncState) EXCEPT !.highlights = Some(reordered)])]))

\* areHighlightsEqual for the list and the list with one field of one highlight changed
ChangedCompared(i, field, value) ==
    /\ op.kind = "mount"
    /\ value # highlights[i][field]
    /\ Becomes(Called([World EXCEPT !.highlightsRef =
                                        [highlights EXCEPT ![i][field] = value]],
                      "fieldChanged",
                      areHighlightsEqual(highlights,
                                         [highlights EXCEPT ![i][field] = value])))

SyncUtilsNext ==
    \/ ClampProgressCalled
    \/ HasProgressConflictCalled
    \/ \E order \in Permutations(1..Len(highlights)) : ReorderedCompared(order)
    \/ \E i \in 1..Len(highlights),
          field \in {"id", "chapterId", "start", "end", "color", "text"} :
           \E value \in FieldValues(field) : ChangedCompared(i, field, value)

SyncUtilsSpec == SyncUtilsInit /\ [][SyncUtilsNext]_vars

\* C13: hasProgressConflict(local, remote) is true exactly when remote is a
\* number, the clamped local progress is above PROGRESS_EPSILON, and the clamped
\* local and remote progress are more than PROGRESS_EPSILON apart.
ProgressConflictExactly ==
    (op.kind = "hasProgressConflict") =>
        (ValueOf(op.input) <=>
            /\ IsSome(ValueOf(syncState).progress)
            /\ clampProgress(progressRef) > PROGRESS_EPSILON
            /\ \/ clampProgress(progressRef)
                      - clampProgress(ValueOf(ValueOf(syncState).progress))
                          > PROGRESS_EPSILON
               \/ clampProgress(ValueOf(ValueOf(syncState).progress))
                      - clampProgress(progressRef) > PROGRESS_EPSILON)

\* C13 happens: local 0.73 against remote 0 is a conflict.
ProgressConflictFound ==
    /\ op.kind = "hasProgressConflict"
    /\ progressRef = Fraction(73, 100)
    /\ ValueOf(syncState).progress = Some(0)
    /\ op.input = Some(TRUE)

\* C15: for a highlight list and any reordering of it, areHighlightsEqual is
\* true and two sync states that differ only in the order of their highlights
\* have the same fingerprint.
ReorderedHighlightsEqual ==
    (op.kind = "reordered") =>
        /\ ValueOf(op.input).equal
        /\ ValueOf(op.input).fingerprint = ValueOf(op.input).reorderedFingerprint

\* C15 happens: three highlights, not all alike, have been compared with a
\* reordering that moved them.
ReorderedHighlightsCompared ==
    /\ op.kind = "reordered"
    /\ Len(highlights) = 3
    /\ highlightsRef # highlights
    /\ ValueOf(op.input).equal

\* C16: a list and the list obtained by changing one field (id, chapterId,
\* start, end, color or text) of one of its highlights are never equal for
\* areHighlightsEqual.
ChangedFieldDetected ==
    (op.kind = "fieldChanged") => op.input = Some(FALSE)

\* C17 as stated: clampProgress(p) lies in [0,1]; it is p when p is in [0,1], 0
\* when p is below 0 and 1 when p is above 1.
ClampedIntoUnitInterval ==
    (op.kind = "clampProgress") =>
        /\ ValueOf(op.input) >= 0 /\ ValueOf(op.input) <= Scale
        /\ (progressRef >= 0 /\ progressRef <= Scale) => ValueOf(op.input) = progressRef
        /\ (progressRef < 0) => ValueOf(op.input) = 0
        /\ (progressRef # NaN /\ progressRef > Scale) => ValueOf(op.input) = Scale

\* C17, amended: clampProgress(p) lies in [0,1]; it is p when p is in [0,1], 0
\* when p is below 0 or is not a finite number (NaN, Infinity, -Infinity), and 1
\* when p is finite and above 1.
ClampedFiniteIntoUnitInterval ==
    (op.kind = "clampProgress") =>
        /\ ValueOf(op.input) >= 0 /\ ValueOf(op.input) <= Scale
        /\ (progressRef >= 0 /\ progressRef <= Scale) => ValueOf(op.input) = progressRef
        /\ (progressRef < 0 \/ ~IsFinite(progressRef)) => ValueOf(op.input) = 0
        /\ (IsFinite(progressRef) /\ progressRef > Scale) => ValueOf(op.input) = Scale

\* C17 happens: 2 has been clamped to 1.
ClampedFromAbove ==
    /\ op.kind = "clampProgress"
    /\ progressRef = Scale + Scale
    /\ op.input = Some(Scale)

(***************************************************************************)
(* The sync contract of the reader, continued                              *)
(***************************************************************************)
\* C14: when a state delivered through the syncState prop reaches the conflict
\* test of a ready reader (same book, fingerprint neither processed nor the one
\* last reported, not forced), onConflictDetected is called with "highlights"
\* among the entities exactly when the local highlights are non-empty, the
\* state carries a non-empty highlight list, and the two lists do not hold the
\* same highlight records the same number of times.
HighlightConflictReportedExactly ==
    [][(/\ op'.kind = "setSyncState"
        /\ Ready(rendered)
        /\ ValueOf(syncState').bookId = rendered.bookId
        /\ ValueOf(syncState').forceApply # Some(TRUE)
        /\ getSyncStateFingerprint(ValueOf(syncState')) \notin processedSyncStatesRef
        /\ lastConflictFingerprintRef
               # Some(getSyncStateFingerprint(ValueOf(syncState')))) =>
           ((/\ Len(onConflictDetectedCalls') = Len(onConflictDetectedCalls) + 1
             /\ \E k \in 1..Len(onConflictDetectedCalls'[Len(onConflictDetectedCalls')].entities) :
                    onConflictDetectedCalls'[Len(onConflictDetectedCalls')].entities[k]
                        = "highlights")
            <=>
            (/\ Len(highlightsRef) > 0
             /\ IsSome(ValueOf(syncState').highlights)
             /\ Len(ValueOf(ValueOf(syncState').highlights)) > 0
             /\ \E highlight \in HighlightPool \cup {H2}
                                 \cup {[H1 EXCEPT !.text = text] : text \in {None, Some("")}} :
                    Cardinality({i \in 1..Len(highlightsRef) :
                                     highlightsRef[i] = highlight})
                        # Cardinality({i \in 1..Len(ValueOf(ValueOf(syncState').highlights)) :
                                         ValueOf(ValueOf(syncState').highlights)[i]
                                             = highlight})))]_vars

\* C18: handle.applySyncState returns false exactly when no book is loaded or
\* the bookId of the state is not the one of the active book, and then nothing
\* the reader holds changes and nothing is queued; in every other case it
\* returns true and the state is queued (no Book handle yet) or applied at once:
\* its progress, clamped, and its highlights become the local ones.
ImperativeApplyAcceptsOwnBook ==
    [][(op'.kind = "applySyncState") =>
           /\ (op'.detail = "rejected")
                  <=> (bookId = NoBook \/ ValueOf(op'.input).bookId # bookId)
           /\ (op'.detail = "rejected") =>
                  UNCHANGED <<title, bookId, rawContent, toc, isLoading, error,
                              syncState, highlights, highlightsRef, progressRef,
                              suppressSyncEmissionRef, lastProgressSyncEventRef,
                              hasObservedProgressRef, pendingSyncEventsRef,
                              queuedSyncStateRef, processedSyncStatesRef,
                              lastConflictFingerprintRef, percentRead, pageCount,
                              scrollTarget, rendered, localStorage, releaseTimers,
                              onSyncEventCalls, onConflictDetectedCalls>>
           /\ (op'.detail # "rejected") =>
                  \/ /\ op'.detail = "queued"
                     /\ queuedSyncStateRef' = Some(QueuedCopy(ValueOf(op'.input)))
                     /\ UNCHANGED <<progressRef, highlights, highlightsRef>>
                  \/ /\ op'.detail = "applied"
                     /\ IsSome(ValueOf(op'.input).progress) =>
                            progressRef'
                                = clampProgress(ValueOf(ValueOf(op'.input).progress))
                     /\ IsSome(ValueOf(op'.input).highlights) =>
                            /\ highlights' = ValueOf(ValueOf(op'.input).highlights)
                            /\ highlightsRef' = ValueOf(ValueOf(op'.input).highlights)]_vars

\* C18 happens: a state of another book is refused while bok_b is open.
ImperativeApplyRefusedOtherBook ==
    /\ op.kind = "applySyncState"
    /\ op.detail = "rejected"
    /\ bookId = "bok_b"
    /\ ValueOf(op.input).bookId = "bok_a"

\* C19: restoring the reading progress of a loaded book from storage never
\* produces a progress.set event: while the user has not scrolled and the host
\* has applied no sync state, no progress.set event is emitted.
RestoredProgressNeverEmitted ==
    (userOps = 0 /\ hostOps = 0) =>
        \A i \in 1..Len(onSyncEventCalls) : onSyncEventCalls[i].type # "progress.set"

\* C20: a progress.set event is emitted only for a progress more than
\* PROGRESS_EPSILON away from the progress of the last emitted progress event
\* or of the last applied sync state (lastProgressSyncEventRef), and two
\* progress.set events in a row of one book session (one load) carry values
\* more than PROGRESS_EPSILON apart.
ProgressEventsAlwaysApart ==
    [][\A i \in (Len(onSyncEventCalls) + 1)..Len(onSyncEventCalls') :
           (onSyncEventCalls'[i].type = "progress.set") =>
               /\ IsSome(lastProgressSyncEventRef) =>
                      Abs(ValueOf(onSyncEventCalls'[i].payload.progress)
                              - ValueOf(lastProgressSyncEventRef)) > PROGRESS_EPSILON
               /\ \A k \in 1..(i - 1) :
                      (/\ Len(loads') = 1
                       /\ onSyncEventCalls'[k].type = "progress.set"
                       /\ \A j \in (k + 1)..(i - 1) :
                              onSyncEventCalls'[j].type # "progress.set") =>
                          Abs(ValueOf(onSyncEventCalls'[i].payload.progress)
                                  - ValueOf(onSyncEventCalls'[k].payload.progress))
                              > PROGRESS_EPSILON]_vars

\* C20 as the code has it: the event is more than PROGRESS_EPSILON away from
\* lastProgressSyncEventRef, and from the progress.set event before it unless
\* lastProgressSyncEventRef was given another value since (a sync state with a
\* progress was applied, or another book was loaded).
ProgressEventsApartFromLastKnown ==
    [][\A i \in (Len(onSyncEventCalls) + 1)..Len(onSyncEventCalls') :
           (onSyncEventCalls'[i].type = "progress.set") =>
               /\ IsSome(lastProgressSyncEventRef) =>
                      Abs(ValueOf(onSyncEventCalls'[i].payload.progress)
                              - ValueOf(lastProgressSyncEventRef)) > PROGRESS_EPSILON
               /\ \A k \in 1..(i - 1) :
                      (/\ onSyncEventCalls'[k].type = "progress.set"
                       /\ lastProgressSyncEventRef
                              = onSyncEventCalls'[k].payload.progress
                       /\ \A j \in (k + 1)..(i - 1) :
                              onSyncEventCalls'[j].type # "progress.set") =>
                          Abs(ValueOf(onSyncEventCalls'[i].payload.progress)
                                  - ValueOf(onSyncEventCalls'[k].payload.progress))
                              > PROGRESS_EPSILON]_vars

\* C20 happens: after a progress.set event a sync state moved the reader away,
\* and the user scrolling back emits the same progress again.
ProgressEmittedAgainAfterAppliedState ==
    /\ op.kind = "userScroll"
    /\ Len(onSyncEventCalls) >= 2
    /\ onSyncEventCalls[Len(onSyncEventCalls)].type = "progress.set"
    /\ onSyncEventCalls[Len(onSyncEventCalls) - 1].type = "progress.set"
    /\ onSyncEventCalls[Len(onSyncEventCalls)].payload.progress
           = onSyncEventCalls[Len(onSyncEventCalls) - 1].payload.progress
    /\ lastProgressSyncEventRef = onSyncEventCalls[Len(onSyncEventCalls)].payload.progress

(***************************************************************************)
(* The page engine of Book: one book is loaded, then pages are turned,     *)
(* progress is set and the layout is measured again, frame by frame        *)
(***************************************************************************)
PageCountInputs == {0, 1, 4}
PageInputs == {0 - 1, 2, 7}
PageAmounts == {0 - 1, 1}
ProgressToSet == {0, Fraction(4, 10), Scale + Scale}

\* Book.goToPage(targetPage), as the table of contents and the links call it
GoToPage(targetPage) ==
    /\ Work < MaxWork /\ ~RenderDue(World) /\ HandleMounted(rendered)
    /\ Becomes(Commit([Did(goToPage([World EXCEPT !.userOps = @ + 1], rendered, targetPage),
                           "goToPage", "", 0)
                          EXCEPT !.op.input = Some(targetPage)]))

\* changePage(amount), as a tap or an arrow key calls it
ChangePage(amount) ==
    /\ Work < MaxWork /\ ~RenderDue(World) /\ HandleMounted(rendered)
    /\ Becomes(Commit([Did(changePage([World EXCEPT !.userOps = @ + 1], rendered, amount),
                           "changePage", "", 0)
                          EXCEPT !.op.input = Some(amount)]))

\* Book.setProgress(progress) called by applySyncStateToReader; the caller reads
\* getProgress and getSyncSnapshot as soon as the call has returned.
SetProgress(progress) ==
    /\ Work < MaxWork /\ ~RenderDue(World) /\ HandleMounted(rendered)
    /\ rendered.bookId # NoBook
    /\ Becomes(Commit(
          [Did(applySyncState([World EXCEPT !.hostOps = @ + 1], rendered,
                              SyncStateOf(rendered.bookId, Some(progress), None, None),
                              None).w,
               "setProgress", "", 0)
              EXCEPT !.op.input =
                  Some([progress |-> progress,
                        getProgress |->
                            getProgress(applySyncState(World, rendered,
                                SyncStateOf(rendered.bookId, Some(progress), None, None),
                                None).w),
                        snapshot |->
                            ValueOf(getSyncSnapshot(applySyncState(World, rendered,
                                SyncStateOf(rendered.bookId, Some(progress), None, None),
                                None).w, rendered)).progress])]))

\* the browser runs the callback of a pending animation frame
AnimationFrame(frame, inTime, ease) ==
    /\ ~RenderDue(World)
    /\ Becomes(Commit([Did(animateScroll(World, frame, inTime, ease),
                           "animationFrame", "", 0)
                          EXCEPT !.op.input = Some(frame)]))

\* the font size, the padding, the font family or the viewport changes: the layout
\* effect runs again
LayoutChanged ==
    /\ Work < MaxWork /\ Settled(World) /\ HandleMounted(rendered)
    /\ Becomes(Commit(Did(LayoutEffect([World EXCEPT !.userOps = @ + 1], rendered),
                          "layoutChanged", "", 0)))

PageNext ==
    \/ LoadEpub("B")
    \/ \E i \in 1..Len(loads) : OpfRead(i)
    \/ \E i \in 1..Len(loads) : BookIdSet(i)
    \/ \E i \in 1..Len(loads) : ContentSet(i)
    \/ ClearSkipTimer
    \/ ReleaseSuppression
    \/ LayoutTimerFires
    \/ \E count \in PageCountInputs : LayoutFrame(count)
    \/ LayoutChanged
    \/ \E targetPage \in PageInputs : GoToPage(targetPage)
    \/ \E amount \in PageAmounts : ChangePage(amount)
    \/ \E progress \in ProgressToSet : SetProgress(progress)
    \/ \E frame \in animationFrames, inTime \in BOOLEAN, ease \in {5, 11} :
           AnimationFrame(frame, inTime, ease)

PageSpec == Init /\ [][PageNext]_vars

\* C21: currentPage is an integer of 0 or more in every state of the page
\* engine, and after goToPage(n) or changePage(d) it is n (or the page before
\* plus d) clamped into [0, pageCount - 1], for every pageCount of 0 or more.
CurrentPageWithinBook ==
    [][/\ currentPage' \in Nat
       /\ (op'.kind = "goToPage") =>
              currentPage' = Max(0, Min(pageCount - 1, ValueOf(op'.input)))
       /\ (op'.kind = "changePage") =>
              currentPage' = Max(0, Min(pageCount - 1,
                                        currentPage + ValueOf(op'.input)))]_vars

ProgressReadAfterSetProgress ==
    [][(op'.kind = "setProgress") =>
           /\ ValueOf(op'.input).getProgress
                  = Max(0, Min(Scale, ValueOf(op'.input).progress))
           /\ ValueOf(op'.input).snapshot
                  = Max(0, Min(Scale, ValueOf(op'.input).progress))
           /\ (pageCount = 0) => (currentPage' = currentPage)]_vars

\* C24: at most one scroll animation is in flight: a navigation (goToPage,
\* changePage, setProgress with pages) leaves pending only the frame of its own
\* animation, towards the page it set, so that no frame of an earlier animation
\* runs after it, and the last frame of an animation leaves the offset at the
\* target of that navigation.
OneAnimationInFlight ==
    [][/\ Cardinality(animationFrames') <= 1
       /\ (\/ op'.kind \in {"goToPage", "changePage"}
           \/ op'.kind = "setProgress" /\ pageCount > 0) =>
              \E frame \in animationFrames' :
                  /\ animationFrames' = {frame}
                  /\ animationRef' = Some(frame.handle)
                  /\ frame.target = PageOffset(currentPage')
       /\ (op'.kind = "animationFrame") =>
              /\ animationFrames' \subseteq
                     {[ValueOf(op'.input) EXCEPT !.handle = handle] : handle \in 1..2}
              /\ (animationFrames' = {}) =>
                     scrollLeft' = Max(0, ValueOf(op'.input).target)]_vars

\* C24 happens: a page turn started while the animation of goToPage was half
\* way (offset 25 between pages 3 and 2) has run to its end on page 3.
RapidNavigationSettled ==
    /\ op.kind = "animationFrame"
    /\ animationFrames = {}
    /\ ValueOf(op.input).start = 25
    /\ ValueOf(op.input).target = 30
    /\ scrollLeft = 30
    /\ currentPage = 3

(***************************************************************************)
(* Storage, highlights and the document                                    *)
(***************************************************************************)
\* C25: until the user or a sync state changes the progress, the progress entry
\* of a book identity is never written with another value than the one restored
\* for it: the stored value if there was one, else 0, and nothing before the
\* restore.
RestoreNeverRepersistsAnother ==
    (userOps = 0 /\ hostOps = 0) =>
        \A id \in BookIds :
            \E storage \in InitialStorages :
                \/ localStorage[ProgressKey(id)] = storage[ProgressKey(id)]
                \/ /\ storage[ProgressKey(id)] = None
                   /\ localStorage[ProgressKey(id)] = Some(0)


(***************************************************************************)
(* Legacy storage: the reader opened over entries of an older version      *)
(***************************************************************************)
\* Entries keyed by the title, with and without entries keyed by the identity.
LegacyStorages ==
    { [EmptyStorage EXCEPT ![ProgressKey("Title B")] = Some(Fraction(4, 10)),
                           ![HighlightsKey("Title B")] = Some(<<H2>>)],
      [EmptyStorage EXCEPT ![ProgressKey("Title B")] = Some(Fraction(4, 10)),
                           ![HighlightsKey("Title B")] = Some(<<H2>>),
                           ![ProgressKey("bok_b")] = Some(Fraction(6, 10)),
                           ![HighlightsKey("bok_b")] = Some(<<H1>>)] }

\* A state of the host whose highlight covers no character.
EmptyRangeStates == {SyncStateOf("bok_b", None, Some(<<[H1 EXCEPT !.end = 0]>>), None)}

StorageInit ==
    /\ title = "" /\ bookId = NoBook /\ rawContent = NoContent /\ toc = ""
    /\ isLoading = TRUE /\ error = None /\ currentZip = "" /\ loads = << >>
    /\ currentStyle = << >> /\ currentImages = [path \in ImagePaths |-> None]
    /\ styleLinkElement = None /\ documentHead = << >>
    /\ contentImages = [path \in ImagePaths |-> None]
    /\ syncState = None /\ highlights = << >> /\ highlightsRef = << >>
    /\ progressRef = 0 /\ suppressSyncEmissionRef = 0
    /\ lastProgressSyncEventRef = None /\ hasObservedProgressRef = FALSE
    /\ pendingSyncEventsRef = << >> /\ queuedSyncStateRef = None
    /\ processedSyncStatesRef = {} /\ lastConflictFingerprintRef = None
    /\ percentRead = 0 /\ pageCount = 0 /\ skipProgressPersistRef = FALSE
    /\ clearSkipTimer = FALSE /\ layoutTimer = FALSE /\ layoutFrame = FALSE
    /\ staleLayoutFrame = FALSE /\ scrollTarget = None
    /\ currentPage = 1 /\ scrollLeft = 0 /\ animationRef = None /\ animationFrames = {}
    /\ bookRef = << >>
    /\ rendered = [title |-> "", bookId |-> NoBook, rawContent |-> NoContent,
                   isLoading |-> TRUE, highlights |-> << >>, percentRead |-> 0,
                   pageCount |-> 0, syncState |-> None]
    /\ localStorage \in LegacyStorages
    /\ location = ReaderLocation
    /\ releaseTimers = 0 /\ uuid = 0 /\ clock = 0
    /\ onSyncEventCalls = << >> /\ onConflictDetectedCalls = << >>
    /\ hostOps = 0 /\ userOps = 0
    /\ op = [kind |-> "mount", detail |-> "", load |-> 0, input |-> None]

StorageNext ==
    \/ \E source \in Sources : LoadEpub(source)
    \/ \E i \in 1..Len(loads) : LoadFails(i)
    \/ \E i \in 1..Len(loads) : OpfRead(i)
    \/ \E i \in 1..Len(loads) : BookIdSet(i)
    \/ \E i \in 1..Len(loads) : ContentSet(i)
    \/ LayoutTimerFires
    \/ \E count \in PageCounts : LayoutFrame(count)
    \/ StaleLayoutFrame
    \/ ScrollObserved
    \/ ClearSkipTimer
    \/ \E position \in UserProgress : UserScroll(position)
    \/ \E highlight \in HighlightPool : AddHighlight(highlight)
    \/ \E id \in IdsOf(rendered.highlights) : RemoveHighlight(id)
    \/ \E nextSyncState \in EmptyRangeStates : ApplySyncState(nextSyncState, None)
    \/ ReleaseSuppression

StorageSpec == StorageInit /\ [][StorageNext]_vars

\* The steps in which the restore effects run: the Book mounts, or the identity
\* or the title of the rendered book changes.
ProgressRestored ==
    /\ HandleMounted(rendered')
    /\ rendered'.bookId # NoBook
    /\ \/ ~HandleMounted(rendered)
       \/ rendered'.bookId # rendered.bookId
       \/ rendered'.title # rendered.title

HighlightsRestored ==
    /\ rendered'.bookId # NoBook
    /\ \/ rendered'.bookId # rendered.bookId
       \/ legacyHighlightsStorageKey(rendered') # legacyHighlightsStorageKey(rendered)

\* C26: no step writes an entry keyed by a title; a step that restores
\* while the entry keyed by the identity holds a value takes the progress and the
\* highlights from that entry and leaves it as it was, whatever the entry keyed
\* by the title holds.
LegacyEntriesOnlyMigrated ==
    [][/\ \A source \in Sources :
             /\ localStorage'[ProgressKey(TitleOf(source))]
                    = localStorage[ProgressKey(TitleOf(source))]
             /\ localStorage'[HighlightsKey(TitleOf(source))]
                    = localStorage[HighlightsKey(TitleOf(source))]
       /\ (ProgressRestored /\ IsSome(localStorage[ProgressKey(rendered'.bookId)])) =>
             /\ percentRead' = ValueOf(localStorage[ProgressKey(rendered'.bookId)])
             /\ localStorage'[ProgressKey(rendered'.bookId)]
                    = localStorage[ProgressKey(rendered'.bookId)]
       /\ (HighlightsRestored /\ IsSome(localStorage[HighlightsKey(rendered'.bookId)])) =>
             /\ highlights' = ValueOf(localStorage[HighlightsKey(rendered'.bookId)])
             /\ localStorage'[HighlightsKey(rendered'.bookId)]
                    = localStorage[HighlightsKey(rendered'.bookId)]
       /\ \A id \in BookIds :
             (/\ ~IsSome(localStorage[ProgressKey(id)])
              /\ IsSome(localStorage'[ProgressKey(id)])
              /\ IsSome(GetItem(World, legacyProgressStorageKey(rendered')))
              /\ ProgressRestored /\ rendered'.bookId = id) =>
                 localStorage'[ProgressKey(id)]
                     = GetItem(World, legacyProgressStorageKey(rendered'))
      ]_vars

MigratedThenRestoredFromIdentity ==
    /\ Len(loads) = 2 /\ op.load = 2 /\ HandleMounted(rendered) /\ userOps = 1
    /\ localStorage[ProgressKey("Title B")] = Some(Fraction(4, 10))
    /\ localStorage[ProgressKey("bok_b")] = Some(Fraction(9, 10))
    /\ localStorage[HighlightsKey("bok_b")] = Some(<<H2>>)
    /\ rendered.bookId = "bok_b" /\ rendered.title = "Title B"
    /\ percentRead = Fraction(9, 10) /\ highlights = <<H2>>

\* C27: every highlight the reader holds, in its state or in the ref the
\* snapshots read, covers at least one character: its end is above its start.
HeldHighlightsCoverText ==
    /\ \A i \in 1..Len(highlights) : highlights[i].end > highlights[i].start
    /\ \A i \in 1..Len(highlightsRef) : highlightsRef[i].end > highlightsRef[i].start


(***************************************************************************)
(* Highlight rendering                                                     *)
(*                                                                         *)
(* The DOM below bookRef is a sequence of chapters (div.bok-chapter), each *)
(* a sequence of leaves in document order: a text node with its characters,*)
(* or an element without children; path lists the ancestors of the leaf    *)
(* inside the chapter, outermost first.                                    *)
(***************************************************************************)
Element(tag, key) == [tag |-> tag, key |-> key, highlightId |-> "", color |-> ""]
HighlightSpan(highlight) ==
    [tag |-> "span", key |-> "", highlightId |-> highlight.id, color |-> highlight.color]
Text(data, path) == [isText |-> TRUE, data |-> data, path |-> path]
Childless(path) == [isText |-> FALSE, data |-> << >>, path |-> path]

IsHighlightSpan(element) == element.tag = "span" /\ element.highlightId # ""

\* acceptNode of createTextNodeWalker
acceptNode(node) ==
    /\ node.isText
    /\ Len(node.data) > 0
    /\ \/ Len(node.path) = 0
       \/ node.path[Len(node.path)].tag \notin {"script", "style"}

\* wrapTextRange: the node is split before start and, when the test of the source
\* says so, after the range; the part from start on is put into a new span.
TailLength(textNode, start) ==
    IF start > 0 THEN Len(textNode.data) - start ELSE Len(textNode.data)

RangeEnd(textNode, start, end) ==
    IF end < TailLength(textNode, start) THEN end ELSE Len(textNode.data)

wrapTextRange(textNode, start, end, highlight) ==
    IF start >= end THEN <<textNode>>
    ELSE (IF start > 0 THEN <<Text(SubSeq(textNode.data, 1, start), textNode.path)>>
          ELSE << >>)
         \o <<Text(SubSeq(textNode.data, start + 1, RangeEnd(textNode, start, end)),
                   Append(textNode.path, HighlightSpan(highlight)))>>
         \o (IF RangeEnd(textNode, start, end) < Len(textNode.data)
             THEN <<Text(SubSeq(textNode.data, RangeEnd(textNode, start, end) + 1,
                                Len(textNode.data)),
                         textNode.path)>>
             ELSE << >>)

\* the loop of applyHighlightToChapter over the text nodes, from node i on
RECURSIVE ApplyFrom(_, _, _, _)
ApplyFrom(nodes, i, total, highlight) ==
    IF i > Len(nodes) THEN << >>
    ELSE IF ~acceptNode(nodes[i])
    THEN <<nodes[i]>> \o ApplyFrom(nodes, i + 1, total, highlight)
    ELSE IF total + Len(nodes[i].data) <= highlight.start
    THEN <<nodes[i]>> \o ApplyFrom(nodes, i + 1, total + Len(nodes[i].data), highlight)
    ELSE IF total >= highlight.end THEN SubSeq(nodes, i, Len(nodes))
    ELSE wrapTextRange(nodes[i], Max(highlight.start, total) - total,
                       Min(highlight.end, total + Len(nodes[i].data)) - total, highlight)
         \o ApplyFrom(nodes, i + 1, total + Len(nodes[i].data), highlight)

applyHighlightToChapter(chapter, highlight) ==
    IF highlight.end <= highlight.start THEN chapter
    ELSE [chapter EXCEPT !.nodes = ApplyFrom(@, 1, 0, highlight)]

\* The first loop of renderHighlights: every span[data-highlight-id] is replaced
\* by its children.
Unwrapped(node) ==
    [node EXCEPT !.path = SelectSeq(@, LAMBDA element : ~IsHighlightSpan(element))]

\* Node.normalize: empty text nodes go, adjacent text nodes become one.
RECURSIVE normalize(_)
normalize(nodes) ==
    IF Len(nodes) = 0 THEN nodes
    ELSE IF nodes[1].isText /\ Len(nodes[1].data) = 0 THEN normalize(Tail(nodes))
    ELSE IF /\ Len(nodes) > 1 /\ nodes[1].isText /\ nodes[2].isText
            /\ nodes[1].path = nodes[2].path
    THEN normalize(<<Text(nodes[1].data \o nodes[2].data, nodes[1].path)>>
                   \o SubSeq(nodes, 3, Len(nodes)))
    ELSE <<nodes[1]>> \o normalize(Tail(nodes))

Cleared(container) ==
    [k \in 1..Len(container) |->
        [container[k] EXCEPT
            !.nodes = normalize([i \in 1..Len(@) |-> Unwrapped(@[i])])]]

\* container.querySelector("#" + chapterId): the first chapter of that id, if any
ChapterIndex(container, chapterId) ==
    IF \E k \in 1..Len(container) : container[k].id = chapterId
    THEN CHOOSE k \in 1..Len(container) :
             /\ container[k].id = chapterId
             /\ \A j \in 1..(k - 1) : container[j].id # chapterId
    ELSE 0

ApplyHighlight(container, highlight) ==
    IF highlight.chapterId = "" \/ ChapterIndex(container, highlight.chapterId) = 0
    THEN container
    ELSE [container EXCEPT ![ChapterIndex(container, highlight.chapterId)] =
              applyHighlightToChapter(@, highlight)]

RECURSIVE ApplyAll(_, _, _)
ApplyAll(container, list, i) ==
    IF i > Len(list) THEN container
    ELSE ApplyAll(ApplyHighlight(container, list[i]), list, i + 1)

\* renderHighlights gone wrong: the spans of the render before are left in place
renderHighlightsOverSpans(container, list) == ApplyAll(container, list, 1)

renderHighlights(container, list) == ApplyAll(Cleared(container), list, 1)

\* What the reader sees: every character of the chapters with the highlight spans
\* around it, innermost last.
MarksOf(node) ==
    [i \in 1..Len(node.data) |->
        [character |-> node.data[i],
         marks |-> [k \in 1..Len(SelectSeq(node.path, IsHighlightSpan)) |->
                       <<SelectSeq(node.path, IsHighlightSpan)[k].highlightId,
                         SelectSeq(node.path, IsHighlightSpan)[k].color>>]]]

RECURSIVE MarkedFrom(_, _)
MarkedFrom(nodes, i) ==
    IF i > Len(nodes) THEN << >> ELSE MarksOf(nodes[i]) \o MarkedFrom(nodes, i + 1)

Marked(container) == [k \in 1..Len(container) |-> MarkedFrom(container[k].nodes, 1)]

PlainText(container) ==
    [k \in 1..Len(container) |->
        [i \in 1..Len(Marked(container)[k]) |-> Marked(container)[k][i].character]]

\* The contents and the highlight lists the rendering is run on.
Characters(first, count) == [i \in 1..count |-> first + i - 1]

Contents ==
    { <<[id |-> "c1",
         nodes |-> <<Text(Characters(1, 4), <<Element("p", "p1")>>),
                     Text(Characters(5, 2), <<Element("p", "p1"), Element("b", "b1")>>),
                     Text(Characters(7, 2), <<Element("p", "p1")>>)>>],
        [id |-> "c2", nodes |-> <<Text(Characters(11, 3), <<Element("p", "p2")>>)>>]>>,
      <<[id |-> "c1",
         nodes |-> <<Text(Characters(21, 2), <<Element("style", "s1")>>),
                     Text(Characters(1, 3), <<Element("p", "p1")>>),
                     Childless(<<Element("p", "p1"), Element("br", "br1")>>),
                     Text(Characters(4, 3), <<Element("p", "p1")>>),
                     Text(Characters(7, 2),
                          <<Element("p", "p1"),
                            [tag |-> "span", key |-> "s2", highlightId |-> "own",
                             color |-> "green"]>>)>>]>> }

RangeOf(id, chapterId, start, end, color) ==
    [id |-> id, chapterId |-> chapterId, start |-> start, end |-> end,
     color |-> color, text |-> None]

RenderedHighlights ==
    { RangeOf("h1", "c1", 0, 3, "yellow"), RangeOf("h2", "c1", 2, 7, "blue"),
      RangeOf("h3", "c1", 1, 3, "red"), RangeOf("h4", "c1", 5, 5, "yellow"),
      RangeOf("h5", "c2", 0, 1, "blue"), RangeOf("h6", "c9", 0, 2, "red") }

RenderedLists == UNION {[1..n -> RenderedHighlights] : n \in 0..2}

RenderInit ==
    /\ title = "" /\ bookId = NoBook /\ rawContent \in Contents /\ toc = ""
    /\ isLoading = TRUE /\ error = None /\ currentZip = "" /\ loads = << >>
    /\ currentStyle = << >> /\ currentImages = [path \in ImagePaths |-> None]
    /\ styleLinkElement = None /\ documentHead = << >>
    /\ contentImages = [path \in ImagePaths |-> None]
    /\ syncState = None /\ highlights \in RenderedLists /\ highlightsRef = << >>
    /\ progressRef = 0 /\ suppressSyncEmissionRef = 0
    /\ lastProgressSyncEventRef = None /\ hasObservedProgressRef = FALSE
    /\ pendingSyncEventsRef = << >> /\ queuedSyncStateRef = None
    /\ processedSyncStatesRef = {} /\ lastConflictFingerprintRef = None
    /\ percentRead = 0 /\ pageCount = 0 /\ skipProgressPersistRef = FALSE
    /\ clearSkipTimer = FALSE /\ layoutTimer = FALSE /\ layoutFrame = FALSE
    /\ staleLayoutFrame = FALSE /\ scrollTarget = None
    /\ currentPage = 1 /\ scrollLeft = 0 /\ animationRef = None /\ animationFrames = {}
    /\ bookRef = rawContent
    /\ rendered = [title |-> "", bookId |-> NoBook, rawContent |-> NoContent,
                   isLoading |-> TRUE, highlights |-> << >>, percentRead |-> 0,
                   pageCount |-> 0, syncState |-> None]
    /\ localStorage = EmptyStorage
    /\ location = ReaderLocation
    /\ releaseTimers = 0 /\ uuid = 0 /\ clock = 0
    /\ onSyncEventCalls = << >> /\ onConflictDetectedCalls = << >>
    /\ hostOps = 0 /\ userOps = 0
    /\ op = [kind |-> "mount", detail |-> "", load |-> 0, input |-> None]

\* The effect that calls renderHighlights runs again.
RenderHighlightsEffect ==
    /\ userOps < MaxWork
    /\ Becomes(Did([World EXCEPT !.bookRef = renderHighlights(@, highlights),
                                 !.userOps = @ + 1],
                   "renderHighlights", "", 0))

\* The list of highlights changes, and the effect runs for the new list.
HighlightsRendered(list) ==
    /\ userOps < MaxWork
    /\ list # highlights
    /\ Becomes(Did([World EXCEPT !.highlights = list,
                                 !.bookRef = renderHighlights(@, list),
                                 !.userOps = @ + 1],
                   "highlightsRendered", "", 0))

RenderNext ==
    \/ RenderHighlightsEffect
    \/ \E list \in RenderedLists : HighlightsRendered(list)

RenderSpec == RenderInit /\ [][RenderNext]_vars

\* C28: rendering the highlights over what an earlier rendering left gives
\* the same as rendering them over the content as it was delivered: the same
\* characters inside spans of the same ids and colours, and the text of every
\* chapter as it was.
RenderHighlightsIdempotent ==
    [][op'.kind \in {"renderHighlights", "highlightsRendered"} =>
          /\ Marked(bookRef') = Marked(renderHighlights(rawContent, highlights'))
          /\ PlainText(bookRef') = PlainText(rawContent)]_vars

RenderedTwiceOverlapping ==
    /\ op.kind = "renderHighlights" /\ userOps >= 2
    /\ highlights = <<RangeOf("h1", "c1", 0, 3, "yellow"), RangeOf("h2", "c1", 2, 7, "blue")>>
    /\ \E k \in 1..Len(bookRef) : \E i \in 1..Len(bookRef[k].nodes) :
           Len(SelectSeq(bookRef[k].nodes[i].path, IsHighlightSpan)) = 2


(***************************************************************************)
(* The normalized document                                                 *)
(*                                                                         *)
(* An archive is its manifest and its spine; a file of it is the markup of *)
(* a spine item: whether DOMParser accepts it, and its elements in document*)
(* order with their id and href attributes.  The normalized document is a  *)
(* sequence of chapters, each with the id of its wrapper and its elements. *)
(***************************************************************************)
startsWith(s, prefix) == Len(s) >= Len(prefix) /\ SubSeq(s, 1, Len(prefix)) = prefix

includes(s, part) ==
    \E i \in 1..(Len(s) + 1 - Len(part)) : SubSeq(s, i, i + Len(part) - 1) = part

\* s.split(separator), for a separator of one character
RECURSIVE SplitFrom(_, _, _, _)
SplitFrom(s, separator, from, i) ==
    IF i > Len(s) THEN <<SubSeq(s, from, Len(s))>>
    ELSE IF SubSeq(s, i, i) = separator
    THEN <<SubSeq(s, from, i - 1)>> \o SplitFrom(s, separator, i + 1, i + 1)
    ELSE SplitFrom(s, separator, from, i + 1)

split(s, separator) == SplitFrom(s, separator, 1, 1)

RECURSIVE join(_, _)
join(parts, separator) ==
    IF Len(parts) = 0 THEN ""
    ELSE IF Len(parts) = 1 THEN parts[1]
    ELSE parts[1] \o separator \o join(Tail(parts), separator)

Pop(stack) == IF Len(stack) = 0 THEN stack ELSE SubSeq(stack, 1, Len(stack) - 1)

RECURSIVE ResolveParts(_, _, _)
ResolveParts(stack, parts, i) ==
    IF i > Len(parts) THEN stack
    ELSE IF parts[i] = "." THEN ResolveParts(stack, parts, i + 1)
    ELSE IF parts[i] = ".." THEN ResolveParts(Pop(stack), parts, i + 1)
    ELSE ResolveParts(Append(stack, parts[i]), parts, i + 1)

resolvePath(base, relative) ==
    join(ResolveParts(Pop(split(base, "/")), split(relative, "/"), 1), "/")

\* manifestItems and hrefToId: of two items with one key the later one is kept
manifestItems(archive, id) ==
    IF \E k \in 1..Len(archive.manifest) : archive.manifest[k].id = id
    THEN Some(archive.manifest[CHOOSE k \in 1..Len(archive.manifest) :
                  /\ archive.manifest[k].id = id
                  /\ \A j \in (k + 1)..Len(archive.manifest) : archive.manifest[j].id # id])
    ELSE None

hrefToId(archive, href) ==
    IF \E k \in 1..Len(archive.manifest) : archive.manifest[k].href = href
    THEN Some(archive.manifest[CHOOSE k \in 1..Len(archive.manifest) :
                  /\ archive.manifest[k].href = href
                  /\ \A j \in (k + 1)..Len(archive.manifest) :
                         archive.manifest[j].href # href].id)
    ELSE None

\* the anchor loop of manipulateDom, for one href
RewrittenHref(archive, currentId, currentPath, href) ==
    IF href = "" \/ startsWith(href, "http") \/ startsWith(href, "mailto") THEN href
    ELSE IF startsWith(href, "#") THEN "#" \o currentId \o "_" \o SubSeq(href, 2, Len(href))
    ELSE IF ~IsSome(hrefToId(archive, resolvePath(currentPath, split(href, "#")[1])))
    THEN href
    ELSE IF Len(split(href, "#")) > 1 /\ split(href, "#")[2] # ""
    THEN "#" \o ValueOf(hrefToId(archive, resolvePath(currentPath, split(href, "#")[1])))
             \o "_" \o split(href, "#")[2]
    ELSE "#" \o ValueOf(hrefToId(archive, resolvePath(currentPath, split(href, "#")[1])))

manipulateDom(archive, markup, currentId, currentPath) ==
    IF ~markup.parses THEN markup.elements
    ELSE [i \in 1..Len(markup.elements) |->
             [markup.elements[i] EXCEPT
                 !.id = IF IsSome(@) THEN Some(currentId \o "_" \o ValueOf(@)) ELSE @,
                 !.href = IF IsSome(@) /\ markup.elements[i].tag = "a"
                          THEN Some(RewrittenHref(archive, currentId, currentPath, ValueOf(@)))
                          ELSE @]]

\* the spine loop of parseManifestAndSpine, from reference i on
RECURSIVE CombinedFrom(_, _)
CombinedFrom(archive, i) ==
    IF i > Len(archive.spine) THEN << >>
    ELSE IF \/ ~IsSome(manifestItems(archive, archive.spine[i]))
            \/ ~(\/ includes(ValueOf(manifestItems(archive, archive.spine[i])).type, "html")
                 \/ includes(ValueOf(manifestItems(archive, archive.spine[i])).type, "xml"))
            \/ ~IsSome(ValueOf(manifestItems(archive, archive.spine[i])).file)
    THEN CombinedFrom(archive, i + 1)
    ELSE <<[id |-> archive.spine[i],
            elements |-> manipulateDom(
                archive,
                ValueOf(ValueOf(manifestItems(archive, archive.spine[i])).file),
                archive.spine[i],
                ValueOf(manifestItems(archive, archive.spine[i])).href)]>>
         \o CombinedFrom(archive, i + 1)

combinedContent(archive) == CombinedFrom(archive, 1)

\* The archives that are read.
Tag(tag, id, href) == [tag |-> tag, id |-> id, href |-> href]

ItemIds == {"a", "a_b", "ch"}
ElementIds == {"b", "c", "b_c"}
Hrefs == {"#b", "#nope", "two.xhtml", "two.xhtml#c", "../text/two.xhtml#b_c",
          "missing.xhtml", "missing.xhtml#c", "http://example.org/"}

ArchiveOf(firstId, secondId, firstElementId, secondElementId, href, parses) ==
    [manifest |->
        <<[id |-> firstId, href |-> "text/one.xhtml", type |-> "application/xhtml+xml",
           file |-> Some([parses |-> parses,
                          elements |-> <<Tag("p", Some(firstElementId), None),
                                         Tag("a", None, Some(href))>>])],
          [id |-> "cover", href |-> "images/cover.jpg", type |-> "image/jpeg",
           file |-> Some([parses |-> FALSE, elements |-> << >>])],
          [id |-> secondId, href |-> "text/two.xhtml", type |-> "application/xhtml+xml",
           file |-> Some([parses |-> TRUE,
                          elements |-> <<Tag("p", Some(secondElementId), None)>>])]>>,
     spine |-> <<firstId, "cover", secondId>>]

Archives ==
    { ArchiveOf(firstId, secondId, firstElementId, secondElementId, href, parses) :
        firstId \in ItemIds, secondId \in ItemIds, firstElementId \in ElementIds,
        secondElementId \in ElementIds, href \in Hrefs, parses \in BOOLEAN }

DocumentInit ==
    /\ title = "" /\ bookId = NoBook /\ rawContent = NoContent /\ toc = ""
    /\ isLoading = TRUE /\ error = None /\ currentZip \in Archives /\ loads = << >>
    /\ currentStyle = << >> /\ currentImages = [path \in ImagePaths |-> None]
    /\ styleLinkElement = None /\ documentHead = << >>
    /\ contentImages = [path \in ImagePaths |-> None]
    /\ syncState = None /\ highlights = << >> /\ highlightsRef = << >>
    /\ progressRef = 0 /\ suppressSyncEmissionRef = 0
    /\ lastProgressSyncEventRef = None /\ hasObservedProgressRef = FALSE
    /\ pendingSyncEventsRef = << >> /\ queuedSyncStateRef = None
    /\ processedSyncStatesRef = {} /\ lastConflictFingerprintRef = None
    /\ percentRead = 0 /\ pageCount = 0 /\ skipProgressPersistRef = FALSE
    /\ clearSkipTimer = FALSE /\ layoutTimer = FALSE /\ layoutFrame = FALSE
    /\ staleLayoutFrame = FALSE /\ scrollTarget = None
    /\ currentPage = 1 /\ scrollLeft = 0 /\ animationRef = None /\ animationFrames = {}
    /\ bookRef = << >>
    /\ rendered = [title |-> "", bookId |-> NoBook, rawContent |-> NoContent,
                   isLoading |-> TRUE, highlights |-> << >>, percentRead |-> 0,
                   pageCount |-> 0, syncState |-> None]
    /\ localStorage = EmptyStorage
    /\ location = ReaderLocation
    /\ releaseTimers = 0 /\ uuid = 0 /\ clock = 0
    /\ onSyncEventCalls = << >> /\ onConflictDetectedCalls = << >>
    /\ hostOps = 0 /\ userOps = 0
    /\ op = [kind |-> "mount", detail |-> "", load |-> 0, input |-> None]

\* parseManifestAndSpine up to setRawContent
ParseManifestAndSpine ==
    /\ op.kind = "mount"
    /\ Becomes(Did([World EXCEPT !.rawContent = combinedContent(currentZip)],
                   "parseManifestAndSpine", "", 0))

\* document.getElementById: the chapter that is, or holds, the first element of
\* that id; 0 when there is none.
ChapterOfId(content, elementId) ==
    IF \E k \in 1..Len(content) :
           \/ content[k].id = elementId
           \/ \E i \in 1..Len(content[k].elements) :
                  content[k].elements[i].id = Some(elementId)
    THEN CHOOSE k \in 1..Len(content) :
             /\ \/ content[k].id = elementId
                \/ \E i \in 1..Len(content[k].elements) :
                       content[k].elements[i].id = Some(elementId)
             /\ \A j \in 1..(k - 1) :
                    /\ content[j].id # elementId
                    /\ \A i \in 1..Len(content[j].elements) :
                           content[j].elements[i].id # Some(elementId)
    ELSE 0

\* Every chapter of these books fills one page.
calculatePageOfElement(content, elementId) == ChapterOfId(content, elementId) - 1

\* What the browser does with a click that no handler has prevented.
DefaultAction(w, anchor) ==
    IF IsSome(anchor.href) THEN [w EXCEPT !.location = ValueOf(anchor.href)] ELSE w

handleLinkClick(w, c, anchor) ==
    IF IsSome(anchor.href) /\ startsWith(ValueOf(anchor.href), "#")
    THEN IF ChapterOfId(w.rawContent, SubSeq(ValueOf(anchor.href), 2,
                                            Len(ValueOf(anchor.href)))) # 0
         THEN goToPage(w, c, calculatePageOfElement(
                                 w.rawContent,
                                 SubSeq(ValueOf(anchor.href), 2, Len(ValueOf(anchor.href)))))
         ELSE w
    ELSE DefaultAction(w, anchor)

\* The Book renders the document and measures it.
DocumentLaidOut ==
    /\ op.kind = "parseManifestAndSpine"
    /\ Becomes(Did([LayoutMeasured(World, Len(rawContent))
                       EXCEPT !.isLoading = FALSE, !.rendered.pageCount = Len(rawContent)],
                   "documentLaidOut", "", 0))

\* The user activates the anchor that is element i of chapter k.
LinkClicked(k, i) ==
    /\ op.kind \in {"documentLaidOut", "linkClick"}
    /\ userOps < MaxWork
    /\ rawContent[k].elements[i].tag = "a"
    /\ Becomes([Did(handleLinkClick([World EXCEPT !.userOps = @ + 1], rendered,
                                    rawContent[k].elements[i]),
                    "linkClick", "", 0)
                   EXCEPT !.op.input = Some(<<k, i>>)])

DocumentNext ==
    \/ ParseManifestAndSpine
    \/ DocumentLaidOut
    \/ \E k \in 1..Len(rawContent) : \E i \in 1..Len(rawContent[k].elements) :
           LinkClicked(k, i)

DocumentSpec == DocumentInit /\ [][DocumentNext]_vars

\* The ids of the normalized document in document order: of every chapter the id
\* of its wrapper, then the ids of its elements.
RECURSIVE IdsFrom(_, _)
IdsFrom(elements, i) ==
    IF i > Len(elements) THEN << >>
    ELSE (IF IsSome(elements[i].id) THEN <<ValueOf(elements[i].id)>> ELSE << >>)
         \o IdsFrom(elements, i + 1)

RECURSIVE DocumentIdsFrom(_, _)
DocumentIdsFrom(content, k) ==
    IF k > Len(content) THEN << >>
    ELSE <<content[k].id>> \o IdsFrom(content[k].elements, 1)
         \o DocumentIdsFrom(content, k + 1)

Distinct(ids) == \A i, j \in 1..Len(ids) : ids[i] = ids[j] => i = j

WellFormedIds(archive) ==
    /\ Distinct([k \in 1..Len(archive.manifest) |-> archive.manifest[k].id])
    /\ \A k \in 1..Len(archive.manifest) :
           Distinct(IdsFrom(ValueOf(archive.manifest[k].file).elements, 1))

\* C29: when the manifest ids of the book are distinct and the element ids of
\* every spine item are distinct within the item, no two ids of the normalized
\* document are the same, wrapper ids and rewritten element ids taken together.
DocumentIdsDistinct ==
    (op.kind = "parseManifestAndSpine" /\ WellFormedIds(currentZip)) =>
        Distinct(DocumentIdsFrom(rawContent, 1))

\* The link that element i of the first spine item is in the archive cannot be
\* resolved: its fragment names no id of its own item, or its path matches no
\* item of the manifest, or its fragment names no id of the item its path matches.
IsInternal(href) == href # "" /\ ~startsWith(href, "http") /\ ~startsWith(href, "mailto")

IdsOfItem(archive, id) ==
    IF IsSome(manifestItems(archive, id))
    THEN IdsFrom(ValueOf(ValueOf(manifestItems(archive, id)).file).elements, 1)
    ELSE << >>

HasId(ids, elementId) == \E n \in 1..Len(ids) : ids[n] = elementId

Unresolvable(archive, currentId, currentPath, href) ==
    /\ IsInternal(href)
    /\ IF startsWith(href, "#")
       THEN ~HasId(IdsOfItem(archive, currentId), SubSeq(href, 2, Len(href)))
       ELSE \/ ~IsSome(hrefToId(archive, resolvePath(currentPath, split(href, "#")[1])))
            \/ /\ Len(split(href, "#")) > 1
               /\ ~HasId(IdsOfItem(archive,
                                   ValueOf(hrefToId(archive,
                                       resolvePath(currentPath, split(href, "#")[1])))),
                         split(href, "#")[2])

ClickedLinkUnresolvable ==
    /\ op'.kind = "linkClick"
    /\ ValueOf(op'.input)[1] = 1
    /\ ValueOf(ValueOf(manifestItems(currentZip, currentZip.spine[1])).file).parses
    /\ Unresolvable(currentZip, currentZip.spine[1],
                    ValueOf(manifestItems(currentZip, currentZip.spine[1])).href,
                    ValueOf(ValueOf(ValueOf(manifestItems(currentZip, currentZip.spine[1])).file)
                                .elements[ValueOf(op'.input)[2]].href))

\* C30: a link of a parsed spine item that cannot be resolved is inert: the
\* click on it changes neither the page nor the address of the browser, no error
\* has been reported and every chapter of the spine is in the document.
UnresolvableLinkInert ==
    [][ClickedLinkUnresolvable =>
          /\ currentPage' = currentPage
          /\ location' = location
          /\ error' = None
          /\ Len(rawContent') = 2]_vars


\* The spine items that are markup DOMParser accepts, in spine order.
RECURSIVE ParsedSpineFrom(_, _)
ParsedSpineFrom(archive, i) ==
    IF i > Len(archive.spine) THEN << >>
    ELSE (IF /\ IsSome(manifestItems(archive, archive.spine[i]))
             /\ \/ includes(ValueOf(manifestItems(archive, archive.spine[i])).type, "html")
                \/ includes(ValueOf(manifestItems(archive, archive.spine[i])).type, "xml")
             /\ IsSome(ValueOf(manifestItems(archive, archive.spine[i])).file)
             /\ ValueOf(ValueOf(manifestItems(archive, archive.spine[i])).file).parses
          THEN <<archive.spine[i]>> ELSE << >>)
         \o ParsedSpineFrom(archive, i + 1)

\* C31: the chapters of the normalized document are the spine items whose
\* markup parses, in spine order: an item that fails to parse is no chapter, the
\* others are all there, and no error has been reported.
UnparsedItemsSkipped ==
    op.kind = "parseManifestAndSpine" =>
        /\ [k \in 1..Len(rawContent) |-> rawContent[k].id] = ParsedSpineFrom(currentZip, 1)
        /\ error = None


(***************************************************************************)
(* Loading to the end: promises settle, timers fire and frames are         *)
(* delivered                                                               *)
(***************************************************************************)
LoadSources == {"B", "E"}

LoadNext ==
    \/ \E source \in LoadSources : LoadEpub(source)
    \/ \E i \in 1..Len(loads) : LoadFails(i)
    \/ \E i \in 1..Len(loads) : OpfRead(i)
    \/ \E i \in 1..Len(loads) : BookIdSet(i)
    \/ \E i \in 1..Len(loads) : ContentSet(i)
    \/ LayoutTimerFires
    \/ \E count \in PageCounts : LayoutFrame(count)
    \/ StaleLayoutFrame
    \/ ScrollObserved
    \/ ClearSkipTimer

\* The callback of a kind has run: the step is told by the record it leaves in op,
\* and it is due under the guard of its action.
Ran(kind, detail, load) ==
    op' = [kind |-> kind, detail |-> detail, load |-> load, input |-> None]

ArchiveSettles ==
    \E i \in 1..Len(loads) :
        /\ loads[i].stage = "fetch" /\ Settled(World)
        /\ Ran("opfRead", loads[i].source, i) \/ Ran("loadFails", loads[i].source, i)

IdentityResolves ==
    \E i \in 1..Len(loads) :
        loads[i].stage = "hash" /\ Settled(World) /\ Ran("bookIdSet", loads[i].source, i)

SpineResolves ==
    \E i \in 1..Len(loads) :
        loads[i].stage = "spine" /\ Settled(World) /\ Ran("contentSet", loads[i].source, i)

TimerRuns == layoutTimer /\ Settled(World) /\ Ran("layoutTimer", "", 0)

FrameRuns == layoutFrame /\ Settled(World) /\ Ran("layoutFrame", "", 0)

StaleFrameRuns == staleLayoutFrame /\ Settled(World) /\ Ran("staleLayoutFrame", "", 0)

ScrollReported ==
    /\ IsSome(scrollTarget) /\ Settled(World) /\ rendered.pageCount > 0
    /\ Ran("scrollObserved",
           IF ValueOf(scrollTarget).animated THEN "setProgress" ELSE "layout", 0)

SkipTimerRuns == clearSkipTimer /\ ~RenderDue(World) /\ Ran("clearSkip", "", 0)

\* Promises settle, timers fire and animation frames are delivered.
LoadSpec ==
    /\ Init /\ [][LoadNext]_vars
    /\ WF_op(ArchiveSettles) /\ WF_op(IdentityResolves) /\ WF_op(SpineResolves)
    /\ WF_op(TimerRuns) /\ WF_op(FrameRuns) /\ WF_op(StaleFrameRuns)
    /\ WF_op(ScrollReported) /\ WF_op(SkipTimerRuns)

\* C32: a load that no newer load follows comes to an end: the reader stops
\* loading, with an error or with the content rendered.
LoadTerminates ==
    \A n \in 1..MaxWork :
        (Len(loads) = n) ~>
            \/ Len(loads) > n
            \/ /\ ~isLoading
               /\ error # None \/ rendered.rawContent # NoContent

\* C33: the measurement of a recomputation that a newer one has superseded,
\* its frame running while the timer of the newer one is pending, sets neither
\* pageCount nor currentPage and leaves isLoading true.
SupersededMeasurementIgnored ==
    [][(op'.kind = "layoutFrame" /\ layoutTimer) =>
           /\ pageCount' = pageCount
           /\ currentPage' = currentPage
           /\ isLoading' = TRUE]_vars


(***************************************************************************)
(* User mutations inside the suppression window                            *)
(***************************************************************************)
\* C34: a highlight the user adds, removes or recolours after a sync state has
\* been applied and before the setTimeout(0) of withSyncEmissionSuppressed has
\* released the counter still puts its event in the outbox and calls
\* onSyncEvent; the counter is never negative, and it is 0 once every release
\* timer has fired.
UserMutationSurvivesSuppression ==
    [][/\ suppressSyncEmissionRef' >= 0
       /\ (releaseTimers' = 0) => (suppressSyncEmissionRef' = 0)
       /\ (/\ op'.kind \in HighlightSteps
           /\ rendered.bookId # NoBook
           /\ releaseTimers > 0) =>
              /\ Len(onSyncEventCalls') = Len(onSyncEventCalls) + 1
              /\ onSyncEventCalls'[Len(onSyncEventCalls')].bookId = rendered.bookId
              /\ onSyncEventCalls'[Len(onSyncEventCalls')].mutationId
                     \in MutationIdsOf(pendingSyncEventsRef')]_vars


(***************************************************************************)
(* The highlight entries of the books, one render at a time                *)
(***************************************************************************)
\* What the effects of a render store is in localStorage before the render that
\* their setState calls cause: here every operation is a handler followed by one
\* render with its effects, and the renders that follow are steps of their own.

\* Highlights, and a progress, stored under the identities of the books.
ShelfStorages ==
    { [EmptyStorage EXCEPT ![HighlightsKey("bok_b")] = Some(<<H2>>)],
      [EmptyStorage EXCEPT ![HighlightsKey("bok_a")] = Some(<<H1>>)],
      [EmptyStorage EXCEPT ![HighlightsKey("bok_a")] = Some(<<H1>>),
                           ![HighlightsKey("bok_b")] = Some(<<H2>>),
                           ![ProgressKey("bok_b")] = Some(Fraction(9, 10))] }

ShelfInit ==
    /\ title = "" /\ bookId = NoBook /\ rawContent = NoContent /\ toc = ""
    /\ isLoading = TRUE /\ error = None /\ currentZip = "" /\ loads = << >>
    /\ currentStyle = << >> /\ currentImages = [path \in ImagePaths |-> None]
    /\ styleLinkElement = None /\ documentHead = << >>
    /\ contentImages = [path \in ImagePaths |-> None]
    /\ syncState = None /\ highlights = << >> /\ highlightsRef = << >>
    /\ progressRef = 0 /\ suppressSyncEmissionRef = 0
    /\ lastProgressSyncEventRef = None /\ hasObservedProgressRef = FALSE
    /\ pendingSyncEventsRef = << >> /\ queuedSyncStateRef = None
    /\ processedSyncStatesRef = {} /\ lastConflictFingerprintRef = None
    /\ percentRead = 0 /\ pageCount = 0 /\ skipProgressPersistRef = FALSE
    /\ clearSkipTimer = FALSE /\ layoutTimer = FALSE /\ layoutFrame = FALSE
    /\ staleLayoutFrame = FALSE /\ scrollTarget = None
    /\ currentPage = 1 /\ scrollLeft = 0 /\ animationRef = None /\ animationFrames = {}
    /\ bookRef = << >>
    /\ rendered = [title |-> "", bookId |-> NoBook, rawContent |-> NoContent,
                   isLoading |-> TRUE, highlights |-> << >>, percentRead |-> 0,
                   pageCount |-> 0, syncState |-> None]
    /\ localStorage \in ShelfStorages
    /\ location = ReaderLocation
    /\ releaseTimers = 0 /\ uuid = 0 /\ clock = 0
    /\ onSyncEventCalls = << >> /\ onConflictDetectedCalls = << >>
    /\ hostOps = 0 /\ userOps = 0
    /\ op = [kind |-> "mount", detail |-> "", load |-> 0, input |-> None]

LoadEpubStep(source) ==
    /\ Work + 2 <= MaxWork
    /\ Settled(World)
    /\ Becomes(Pass(Did(loadEpub(World, source), "loadEpub", source, Len(loads) + 1)))

LoadFailsStep(i) ==
    /\ loads[i].stage = "fetch"
    /\ Settled(World)
    /\ Becomes(Pass(Did([World EXCEPT !.error = Some(loads[i].source),
                                      !.isLoading = FALSE,
                                      !.loads[i].stage = "failed"],
                        "loadFails", loads[i].source, i)))

OpfReadStep(i) ==
    /\ loads[i].stage = "fetch"
    /\ Settled(World)
    /\ Becomes(Pass(Did([World EXCEPT !.currentZip = loads[i].source,
                                      !.title = TitleOf(loads[i].source),
                                      !.loads[i].opf = loads[i].source,
                                      !.loads[i].stage = "hash"],
                        "opfRead", loads[i].source, i)))

BookIdSetStep(i) ==
    /\ loads[i].stage = "hash"
    /\ Settled(World)
    /\ Becomes(Pass(Did([World EXCEPT !.bookId = createBookId(loads[i].opf),
                                      !.loads[i].stage = "spine"],
                        "bookIdSet", loads[i].source, i)))

ContentSetStep(i) ==
    /\ loads[i].stage = "spine"
    /\ Settled(World)
    /\ Becomes(Pass(Did([addStyling(HarvestCss(resolveImageSrc(World)))
                             EXCEPT !.toc = loads[i].opf,
                                    !.rawContent = ContentOf(currentZip),
                                    !.loads[i].stage = "done"],
                        "contentSet", loads[i].source, i)))

LayoutFrameStep(count) ==
    /\ layoutFrame
    /\ Settled(World)
    /\ Becomes(Pass(Did(
          [LayoutMeasured(World, count) EXCEPT !.layoutFrame = FALSE,
                                               !.isLoading = FALSE],
          "layoutFrame", "", 0)))

StaleLayoutFrameStep ==
    /\ staleLayoutFrame
    /\ Settled(World)
    /\ Becomes(Pass(Did([World EXCEPT !.staleLayoutFrame = FALSE, !.isLoading = FALSE],
                        "staleLayoutFrame", "", 0)))

ScrollObservedStep ==
    /\ IsSome(scrollTarget)
    /\ Settled(World)
    /\ rendered.pageCount > 0
    /\ Becomes(Pass(Did(
          [(IF animationFrames = {} THEN World
            ELSE animateScroll(World, CHOOSE frame \in animationFrames : TRUE, FALSE, 10))
               EXCEPT !.scrollTarget = None,
                      !.percentRead =
                          ScrollFraction(ValueOf(scrollTarget).page, rendered.pageCount)],
          "scrollObserved",
          IF ValueOf(scrollTarget).animated THEN "setProgress" ELSE "layout", 0)))

AddHighlightStep(highlight) ==
    /\ UserCanAct
    /\ highlight.id \notin IdsOf(rendered.highlights)
    /\ Becomes(Pass(Did(handleAddHighlight([World EXCEPT !.userOps = @ + 1],
                                           rendered, highlight),
                        "addHighlight", highlight.id, 0)))

RemoveHighlightStep(id) ==
    /\ UserCanAct
    /\ id \in IdsOf(rendered.highlights)
    /\ Becomes(Pass(Did(handleRemoveHighlight([World EXCEPT !.userOps = @ + 1],
                                              rendered, id),
                        "removeHighlight", id, 0)))

\* React renders what the effects of the last render have set
RerenderStep ==
    /\ RenderDue(World)
    /\ Becomes(Pass(Did(World, "rerender", "", 0)))

ShelfNext ==
    \/ \E source \in Sources : LoadEpubStep(source)
    \/ \E i \in 1..Len(loads) : LoadFailsStep(i)
    \/ \E i \in 1..Len(loads) : OpfReadStep(i)
    \/ \E i \in 1..Len(loads) : BookIdSetStep(i)
    \/ \E i \in 1..Len(loads) : ContentSetStep(i)
    \/ LayoutTimerFires
    \/ \E count \in PageCounts : LayoutFrameStep(count)
    \/ StaleLayoutFrameStep
    \/ ScrollObservedStep
    \/ ClearSkipTimer
    \/ RerenderStep
    \/ \E highlight \in HighlightPool : AddHighlightStep(highlight)
    \/ \E id \in IdsOf(rendered.highlights) : RemoveHighlightStep(id)

ShelfSpec == ShelfInit /\ [][ShelfNext]_vars

\* C35: the entry bok_highlights_<id> of a book is changed only by steps taken
\* while that book is the rendered identity; a step taken under another
\* identity, or under none, leaves a stored list as it is, and fills an entry
\* that was missing with nothing but the empty list or the list migrated from
\* the legacy entry of the book's title: never with the list of the book that
\* was open before, and never with an empty list over a stored one.
HighlightsEntryOfOwnBook ==
    [][\A id \in BookIds :
           (rendered.bookId # id) =>
               \/ localStorage'[HighlightsKey(id)] = localStorage[HighlightsKey(id)]
               \/ /\ localStorage[HighlightsKey(id)] = None
                  /\ rendered'.bookId = id
                  /\ localStorage'[HighlightsKey(id)] \in
                         {Some(<< >>), GetItem(World, legacyHighlightsStorageKey(rendered'))}]_vars

=============================================================================
